---- MODULE Spec2Model ----
(***************************************************************************)
(* Live dual-stream transcription scheduler of note67                      *)
(* (src-tauri/src/transcription/live.rs) together with the capture side    *)
(* that fills the two sample buffers (audio/recorder.rs, audio/windows.rs) *)
(* and the global AEC processor handle (audio/aec.rs).                     *)
(*                                                                         *)
(* Every step of the model is one access to one shared object (an atomic,  *)
(* a mutex-protected value, the database, the event channel) together with *)
(* the task-local computation around it: the tokio runtime is              *)
(* multi-threaded, so commands, spawned tick loops and capture threads     *)
(* interleave at exactly these points.                                     *)
(*                                                                         *)
(* Samples are identified by their capture sequence number (1, 2, ...);    *)
(* times are in hundredths of a second, the unit of whisper's t0/t1.       *)
(*                                                                         *)
(* Further specifications over the same state: FnSpec applies the pure     *)
(* functions (the echo rule of commands/transcription.rs, the reference    *)
(* slice of a tick) to bounded inputs; DbSpec is the transcript segment    *)
(* storage of db/mod.rs; BatchSpec is the file-transcription commands of   *)
(* commands/transcription.rs and commands/upload.rs; LockSpec is the       *)
(* scheduler and the capture side with the two buffer mutexes explicit;    *)
(* AecSpec, FlagSpec and NumSpec are the AEC engine of audio/aec.rs, its   *)
(* enable flag and its numeric helpers; DedupSpec is the deduplicator;     *)
(* SessionSpec follows one live session from start to stop over several    *)
(* recordings; ModelSpec is load_model and delete_model with the mutexes   *)
(* of TranscriptionState.                                                  *)
(***************************************************************************)
EXTENDS Integers, Sequences, FiniteSets, TLC

(* ---------------------------- bounds ----------------------------------- *)
\* command invocations in one behaviour (start/stop of live transcription,
\* of the recording and of the system-audio capture)
MaxCalls == 4
\* samples delivered by the microphone stream callbacks and by the
\* system-audio capture thread, in total
MaxSamples == 2

(* ------------------------- program constants --------------------------- *)
\* live.rs: const MAX_SAMPLES (reference window, 5 s at 16 kHz)
MAX_SAMPLES == 80000
\* live.rs: the recogniser's operating rate
TARGET_RATE == 16000

Loops == 1..MaxCalls
Recs == 1..MaxCalls
Sources == {"Mic", "System"}

\* input configurations the default device reports to run_recording
DeviceConfigs == {[rate |-> 16000, ch |-> 1]}

(* ------------------------- recogniser outputs -------------------------- *)
\* texts whisper may return for a segment
Texts == {"hello there", " ", "[BLANK_AUDIO]"}
RawSeg(t0, t1, text) == [t0 |-> t0, t1 |-> t1, text |-> text]
\* what whisper can report for one chunk: segments in time order, with times
\* relative to the chunk
RawResults ==
    {<<>>,
     <<RawSeg(0, 100, " ")>>,
     <<RawSeg(0, 100, "hello there")>>,
     <<RawSeg(0, 100, "[BLANK_AUDIO]")>>,
     <<RawSeg(0, 100, "hello there"), RawSeg(100, 200, "[BLANK_AUDIO]")>>}

\* str::trim on the texts above
Trim(text) == IF text = " " THEN "" ELSE text
\* str::to_lowercase on the texts above
ToLowercase(text) ==
    IF text = "[BLANK_AUDIO]" THEN "[blank_audio]"
    ELSE IF text = "[Laughter]" THEN "[laughter]"
    ELSE IF text = "oh [MUSIC]" THEN "oh [music]"
    ELSE IF text = "A" THEN "a"
    ELSE text
\* str::contains on the lowercased texts above: only "oh [music]" holds a
\* marker as a proper part
Contains(text, marker) ==
    \/ text = marker
    \/ text = "oh [music]" /\ marker = "[music]"
Markers == {"[blank_audio]", "[inaudible]", "[ inaudible ]", "[silence]",
            "[music]", "[applause]", "[laughter]"}
\* should_skip_segment (live.rs 57-68)
should_skip_segment(text) ==
    \/ \E marker \in Markers : Contains(ToLowercase(text), marker)
    \/ Trim(text) = ""

\* the segments transcribe_samples builds from whisper's raw segments
RECURSIVE ExtractSegments(_, _)
ExtractSegments(raw, time_offset) ==
    IF raw = <<>> THEN <<>>
    ELSE LET r == Head(raw)
             text == Trim(r.text)
             rest == ExtractSegments(Tail(raw), time_offset)
         IN IF text # ""
            THEN <<[start_time |-> r.t0 + time_offset,
                    end_time |-> r.t1 + time_offset,
                    text |-> text]>> \o rest
            ELSE rest
transcribe_samples(raw, time_offset) == ExtractSegments(raw, time_offset)

\* valid_segments: the filter of live.rs 244-248
FilterValid(segs) == SelectSeq(segs, LAMBDA s : ~should_skip_segment(s.text))

\* every segment labelled as the user's own speech
SpeakerYou(src) == "You"

\* speaker: the match of live.rs 252-255
SpeakerOf(src) == IF src = "Mic" THEN "You" ELSE "Others"

\* full_text of stop_live_transcription: the texts joined by single spaces
RECURSIVE JoinTexts(_)
JoinTexts(segs) ==
    IF segs = <<>> THEN ""
    ELSE IF Len(segs) = 1 THEN segs[1].text
    ELSE segs[1].text \o " " \o JoinTexts(Tail(segs))

\* store_reference_samples: append, keep the last MAX_SAMPLES
StoreReference(buffer, samples) ==
    LET all == buffer \o samples
    IN IF Len(all) > MAX_SAMPLES
       THEN SubSeq(all, Len(all) - MAX_SAMPLES + 1, Len(all))
       ELSE all
\* get_reference_samples(count)
GetReference(buffer, count) ==
    IF Len(buffer) >= count
    THEN SubSeq(buffer, Len(buffer) - count + 1, Len(buffer))
    ELSE buffer

\* AecProcessor::new as far as the scheduler observes it
NoProcessor == [present |-> FALSE, frame_count |-> 0]
NewProcessor == [present |-> TRUE, frame_count |-> 0]

VARIABLES
    \* LiveTranscriptionState
    is_running, mic_time_offset, system_time_offset, segments,
    \* module-level state of live.rs and aec.rs
    system_audio_reference, aec_processor,
    \* RecordingState and the system-audio buffer
    is_recording, sample_rate, channels, audio_buffer, system_audio_buffer,
    is_capturing,
    \* collaborators: database rows and emitted events
    db, events,
    \* tasks: start call + tick loop k, recording thread r, stop call
    pc, mic_samples, system_samples, reference, audio_sources, time_offset,
    result, valid_segments, rec_pc, stop_pc,
    \* history: commands issued, starts accepted, recordings started, starts
    \* rejected, what the last stop returned, whether a stop in progress found
    \* a session running or a loop at work, the loops that were active when a
    \* stop stored false and have not reached their next check, what each loop
    \* did in its current tick, and the samples appended to, drained from and
    \* cleared from the two buffers
    calls, nstarts, nrecs, start_err, stop_result, stop_was_running,
    stop_seen, tick_calls,
    mic_appended, mic_drained, mic_cleared, sys_appended, sys_drained,
    \* a call of one of the pure functions and what it returned
    call, ret,
    \* the transcript_segments table, the rowid of the last insert and the
    \* result of the latest database call if it was a query
    transcript_segments, last_insert_rowid, fetched,
    \* TranscriptionState::is_transcribing, the file-transcription commands
    \* that were admitted and have not returned, what the last command to
    \* return returned, the transcription_status of the upload, and the
    \* commands issued
    is_transcribing, batch_pc, returned, upload_status, batch_calls,
    \* what the recogniser returned for the two files of the audio segment in
    \* the last retranscription, and whether one of its inserts failed
    last_results,
    \* who holds the mutex of the mic buffer and of the system-audio buffer,
    \* and the position of each stream callback and of the system capture
    \* thread inside its append
    audio_buffer_lock, system_buffer_lock, callback_pc, capture_pc,
    \* the global AEC_PROCESSOR with its filter and reference buffer, what the
    \* last call on it returned, every reference sample handed to it since it
    \* was built, and the calls made on it
    processor, aec_ret, supplied, aec_calls,
    \* static AEC_ENABLED of aec.rs
    aec_enabled,
    \* history: how many samples the two streams had delivered and how many
    \* starts had been accepted when the latest recording was started
    recording_start,
    \* TranscriptionState: the values behind the mutexes current_model,
    \* transcriber and whisper_ctx, the state of the mutexes current_model and
    \* transcriber, the position of each thread inside load_model or
    \* delete_model, and the commands issued
    current_model, transcriber, whisper_ctx, model_locks, model_call,
    model_calls

live_vars == <<is_running, mic_time_offset, system_time_offset, segments>>
global_vars == <<system_audio_reference, aec_processor>>
rec_vars == <<is_recording, sample_rate, channels, rec_pc, nrecs, is_capturing>>
buf_vars == <<audio_buffer, system_audio_buffer>>
sink_vars == <<db, events>>
loop_locals == <<mic_samples, system_samples, reference, audio_sources,
                 time_offset, result, valid_segments>>
stop_vars == <<stop_pc, stop_result, stop_was_running>>
hist_buf == <<mic_appended, mic_drained, mic_cleared, sys_appended, sys_drained>>

\* the state of the scheduler, the commands and the capture
scheduler_vars == <<live_vars, global_vars, rec_vars, buf_vars, sink_vars,
                    loop_locals, stop_vars, hist_buf, pc, calls, nstarts,
                    start_err, stop_seen, tick_calls>>
\* the state of the pure-function calls
aec_vars == <<processor, aec_ret, supplied, aec_calls, aec_enabled>>
fn_vars == <<call, ret, aec_vars>>
\* what no step of the scheduler, of the commands or of the capture touches
\* the state of the database
db_vars == <<transcript_segments, last_insert_rowid, fetched>>
\* the state of the file-transcription commands
batch_vars == <<is_transcribing, batch_pc, returned, upload_status, batch_calls,
               last_results>>
\* the state of the two buffer mutexes
lock_vars == <<audio_buffer_lock, system_buffer_lock, callback_pc, capture_pc>>
mark_vars == <<recording_start>>
\* the loaded model and its mutexes
model_vars == <<current_model, transcriber, whisper_ctx, model_locks,
               model_call, model_calls>>
aux_vars == <<fn_vars, db_vars, batch_vars, lock_vars, mark_vars, model_vars>>
\* what a pure-function call, a database call and a file-transcription
\* command leave alone
fn_frame == <<scheduler_vars, db_vars, batch_vars, lock_vars, aec_vars, mark_vars, model_vars>>
aec_frame == <<scheduler_vars, db_vars, batch_vars, lock_vars, call, ret,
               mark_vars, model_vars>>
db_frame == <<scheduler_vars, fn_vars, batch_vars, lock_vars, mark_vars, model_vars>>
batch_frame == <<scheduler_vars, fn_vars, fetched, lock_vars, mark_vars, model_vars>>

vars == <<is_running, mic_time_offset, system_time_offset, segments,
          system_audio_reference, aec_processor,
          is_recording, sample_rate, channels, audio_buffer, system_audio_buffer,
          is_capturing, db, events,
          pc, mic_samples, system_samples, reference, audio_sources, time_offset,
          result, valid_segments, rec_pc, stop_pc,
          calls, nstarts, nrecs, start_err, stop_result, stop_was_running,
          stop_seen, tick_calls,
          mic_appended, mic_drained, mic_cleared, sys_appended, sys_drained,
          aux_vars>>

\* position of a start call that has reset the state and not yet returned
StartPcs == {"spawn"}
\* positions of a spawned tick loop that has not left its loop
LoopPcs == {"tick", "check_recording", "take_mic", "take_system", "store_reference",
            "load_config", "get_reference", "apply_aec", "read_offset", "recognise",
            "log_error", "commit", "emit"}
\* positions after both running checks of the current tick have passed
DrainPcs == LoopPcs \ {"tick", "check_recording"}

NoCalls == [Mic |-> 0, System |-> 0]
\* what a loop has done in its current tick: buffer takes, recognition calls
\* dispatched and recognition calls that failed, per stream, and the session
\* (the number of the last accepted start) in which the tick began
NoTick == [took |-> NoCalls, recognised |-> NoCalls, failed |-> NoCalls,
           session |-> 0]
NoResult == [kind |-> "none", segments |-> <<>>]

NoCall == [op |-> "none"]
NoRet == [done |-> FALSE]
NoFetch == [queried |-> FALSE]

\* static AEC_PROCESSOR: Mutex<Option<AecProcessor>> = Mutex::new(None);
\* static AEC_ENABLED: AtomicBool = AtomicBool::new(true)
NoAec == [some |-> FALSE, panicked |-> FALSE]
NoAecRet == [op |-> "none"]
\* the global processor before init_aec, no call made on it
AecIdle ==
    /\ processor = NoAec
    /\ aec_ret = NoAecRet
    /\ supplied = <<>>
    /\ aec_calls = 0
    /\ aec_enabled = TRUE

\* no pure-function call pending
FnIdle ==
    /\ call = NoCall
    /\ ret = NoRet
    /\ AecIdle

BatchCommands ==
    {"transcribe_audio", "transcribe_dual_audio", "retranscribe_audio_segment",
     "retranscribe_note", "transcribe_uploaded_audio"}
NoReturn == [cmd |-> "none", ok |-> TRUE]
\* a file that does not exist, or was not handed to the recogniser
NoFile == [kind |-> "none", segments |-> <<>>]
NoResults == [cmd |-> "none", system |-> NoFile, mic |-> NoFile,
              insert_failed |-> FALSE]

\* TranscriptionState::new and an upload that has not been transcribed
BatchInit ==
    /\ is_transcribing = FALSE
    /\ batch_pc = [c \in BatchCommands |-> "idle"]
    /\ returned = NoReturn
    /\ upload_status = "pending"
    /\ last_results = NoResults
    /\ batch_calls = 0

\* a mutex nobody holds
Free == [kind |-> "free", task |-> 0]
\* both buffer mutexes free, no callback running
LockInit ==
    /\ audio_buffer_lock = Free
    /\ system_buffer_lock = Free
    /\ callback_pc = [r \in Recs |-> "idle"]
    /\ capture_pc = "idle"

\* the empty table of a new database file
DbInit ==
    /\ transcript_segments = {}
    /\ last_insert_rowid = 0
    /\ fetched = NoFetch

\* no recording started yet
NoMark == [mic |-> 0, sys |-> 0, nstarts |-> 0]

\* the state after construction of the live transcription and recording state
\* the threads that run model commands, and a mutex nobody holds
MaxModelThreads == 2
ModelThreads == 1..MaxModelThreads
Unlocked == [holder |-> 0, poisoned |-> FALSE]
NoModelCall == [op |-> "none", pc |-> "idle", size |-> "None", ret |-> "none"]

\* init_transcription_state: nothing is loaded
ModelInit ==
    /\ current_model = "None"
    /\ transcriber = "None"
    /\ whisper_ctx = "None"
    /\ model_locks = [m \in {"current_model", "transcriber"} |-> Unlocked]
    /\ model_call = [t \in ModelThreads |-> NoModelCall]
    /\ model_calls = 0

LiveInit ==
    /\ is_running = FALSE
    /\ mic_time_offset = 0
    /\ system_time_offset = 0
    /\ segments = <<>>
    /\ system_audio_reference = <<>>
    /\ aec_processor = NoProcessor
    /\ is_recording = FALSE
    /\ sample_rate = 0
    /\ channels = 0
    /\ audio_buffer = <<>>
    /\ system_audio_buffer = <<>>
    /\ is_capturing = FALSE
    /\ db = [l \in Loops |-> <<>>]
    /\ events = <<>>
    /\ pc = [l \in Loops |-> "unborn"]
    /\ mic_samples = [l \in Loops |-> <<>>]
    /\ system_samples = [l \in Loops |-> <<>>]
    /\ reference = [l \in Loops |-> <<>>]
    /\ audio_sources = [l \in Loops |-> <<>>]
    /\ time_offset = [l \in Loops |-> 0]
    /\ result = [l \in Loops |-> NoResult]
    /\ valid_segments = [l \in Loops |-> <<>>]
    /\ rec_pc = [r \in Recs |-> "unborn"]
    /\ stop_pc = "idle"
    /\ nstarts = 0
    /\ nrecs = 0
    /\ start_err = 0
    /\ calls = 0
    /\ stop_result = [returned |-> FALSE, segments |-> <<>>, full_text |-> ""]
    /\ stop_was_running = FALSE
    /\ stop_seen = [l \in Loops |-> FALSE]
    /\ tick_calls = [l \in Loops |-> NoTick]
    /\ mic_appended = 0
    /\ mic_drained = <<>>
    /\ mic_cleared = {}
    /\ sys_appended = 0
    /\ sys_drained = <<>>
    /\ recording_start = NoMark
    /\ ModelInit

Init ==
    /\ LiveInit
    /\ FnIdle
    /\ DbInit
    /\ BatchInit
    /\ LockInit

(* ------------------------- sample conversion --------------------------- *)
Min(a, b) == IF a < b THEN a ELSE b

\* the mono downmix of live.rs 181-188: the mean of each frame of ch samples
\* (a mono sample is named by the frame it averages)
Downmix(samples, ch) ==
    IF ch > 1
    THEN [i \in 1..((Len(samples) + ch - 1) \div ch) |->
            SubSeq(samples, (i - 1) * ch + 1, Min(i * ch, Len(samples)))]
    ELSE samples

\* one output sample of resample: the linear blend of two neighbours
Blend(lo, hi, num, den) ==
    IF num = 0 THEN lo ELSE [lo |-> lo, hi |-> hi, num |-> num, den |-> den]

\* resample with the weights of the two neighbours exchanged
resample_swapped_weights(samples, from_rate, to_rate) ==
    LET new_len == (Len(samples) * to_rate) \div from_rate
        idx0(i) == (i * from_rate) \div to_rate
        idx1(i) == Min(idx0(i) + 1, IF Len(samples) = 0 THEN 0 ELSE Len(samples) - 1)
        kept == {i \in 0..(new_len - 1) : idx0(i) < Len(samples)}
    IN [k \in 1..Cardinality(kept) |->
            Blend(samples[idx1(k - 1) + 1], samples[idx0(k - 1) + 1],
                  ((k - 1) * from_rate) % to_rate, to_rate)]

\* resample (live.rs 429-448); ratio = to/from, src_idx = i / ratio
resample(samples, from_rate, to_rate) ==
    LET new_len == (Len(samples) * to_rate) \div from_rate
        idx0(i) == (i * from_rate) \div to_rate
        idx1(i) == Min(idx0(i) + 1, IF Len(samples) = 0 THEN 0 ELSE Len(samples) - 1)
        kept == {i \in 0..(new_len - 1) : idx0(i) < Len(samples)}
    IN [k \in 1..Cardinality(kept) |->
            Blend(samples[idx0(k - 1) + 1], samples[idx1(k - 1) + 1],
                  ((k - 1) * from_rate) % to_rate, to_rate)]

\* mic_16k of live.rs 190-195
MicTo16k(samples, rate, ch) ==
    LET mono == Downmix(samples, ch)
    IN IF rate # TARGET_RATE THEN resample(mono, rate, TARGET_RATE) ELSE mono

(* --------------------- start_live_transcription ------------------------ *)
\* is_running.swap(true) found false (live.rs 127); the call resets the two
\* offsets and the segment list (132-134), replaces the AEC processor (137)
\* and clears the reference window (138).  The swap and the five resets each
\* touch an object of their own, and they follow one another without an
\* await on anything but the uncontended locks of those objects; they are
\* taken as one step.  The spawn of the loop, and with it the return of the
\* call, is a step of its own: SpawnLoop.
StartAccepted ==
    /\ ~is_running
    /\ calls < MaxCalls
    /\ calls' = calls + 1
    /\ is_running' = TRUE
    /\ mic_time_offset' = 0
    /\ system_time_offset' = 0
    /\ segments' = <<>>
    /\ aec_processor' = NewProcessor
    /\ system_audio_reference' = <<>>
    /\ nstarts' = nstarts + 1
    /\ pc' = [pc EXCEPT ![nstarts + 1] = "spawn"]
    /\ UNCHANGED <<rec_vars, buf_vars, sink_vars, loop_locals, stop_vars,
                   start_err, stop_seen, tick_calls, hist_buf>>
    /\ UNCHANGED aux_vars

\* a start that restarts a running session instead of rejecting the call
StartRestarts ==
    /\ is_running
    /\ calls < MaxCalls
    /\ calls' = calls + 1
    /\ is_running' = TRUE
    /\ start_err' = start_err + 1
    /\ mic_time_offset' = 0
    /\ system_time_offset' = 0
    /\ segments' = <<>>
    /\ aec_processor' = NewProcessor
    /\ system_audio_reference' = <<>>
    /\ nstarts' = nstarts + 1
    /\ pc' = [pc EXCEPT ![nstarts + 1] = "spawn"]
    /\ UNCHANGED <<rec_vars, buf_vars, sink_vars, loop_locals, stop_vars,
                   stop_seen, tick_calls, hist_buf>>
    /\ UNCHANGED aux_vars

\* is_running.swap(true) found true: Err(AlreadyTranscribing) (live.rs 127-129)
StartRejected ==
    /\ is_running
    /\ calls < MaxCalls
    /\ calls' = calls + 1
    /\ is_running' = TRUE
    /\ start_err' = start_err + 1
    /\ UNCHANGED <<mic_time_offset, system_time_offset, segments, global_vars,
                   rec_vars, buf_vars, sink_vars, pc, loop_locals, stop_vars,
                   nstarts, stop_seen, tick_calls, hist_buf>>
    /\ UNCHANGED aux_vars

\* tokio::spawn of the tick loop; the call returns Ok(()) (live.rs 147, 303)
SpawnLoop(k) ==
    /\ pc[k] = "spawn"
    /\ pc' = [pc EXCEPT ![k] = "tick"]
    /\ UNCHANGED <<live_vars, global_vars, rec_vars, buf_vars, sink_vars,
                   loop_locals, stop_vars, calls, nstarts, start_err, stop_seen,
                   tick_calls, hist_buf>>
    /\ UNCHANGED aux_vars

(* ---------------------- stop_live_transcription ------------------------ *)
\* no start call is in progress and every spawned loop has ended
NoSessionActivity == \A l \in Loops : pc[l] \in {"unborn", "exited"}

\* is_running.store(false) (live.rs 310)
StopStore ==
    /\ stop_pc = "idle"
    /\ calls < MaxCalls
    /\ is_running' = FALSE
    /\ stop_pc' = "clone"
    /\ calls' = calls + 1
    /\ stop_was_running' = (is_running \/ ~NoSessionActivity)
    /\ stop_result' = [returned |-> FALSE, segments |-> <<>>, full_text |-> ""]
    /\ stop_seen' = [l \in Loops |-> stop_seen[l] \/ pc[l] \in LoopPcs]
    /\ UNCHANGED <<mic_time_offset, system_time_offset, segments, global_vars,
                   rec_vars, buf_vars, sink_vars, pc, loop_locals, nstarts,
                   start_err, tick_calls, hist_buf>>
    /\ UNCHANGED aux_vars

\* a stop that moves the list out of the state instead of cloning it
StopTakes ==
    /\ stop_pc = "clone"
    /\ stop_result' = [returned |-> TRUE, segments |-> segments,
                       full_text |-> JoinTexts(segments)]
    /\ segments' = <<>>
    /\ stop_pc' = "idle"
    /\ stop_was_running' = FALSE
    /\ UNCHANGED <<is_running, mic_time_offset, system_time_offset, global_vars,
                   rec_vars, buf_vars, sink_vars, pc, loop_locals, calls, nstarts,
                   start_err, stop_seen, tick_calls, hist_buf>>
    /\ UNCHANGED aux_vars

\* segments.lock().await.clone(), the texts joined; Ok(result) (live.rs 312-323)
StopReturn ==
    /\ stop_pc = "clone"
    /\ stop_result' = [returned |-> TRUE, segments |-> segments,
                       full_text |-> JoinTexts(segments)]
    /\ stop_pc' = "idle"
    /\ stop_was_running' = FALSE
    /\ UNCHANGED <<live_vars, global_vars, rec_vars, buf_vars, sink_vars, pc,
                   loop_locals, calls, nstarts, start_err,
                   stop_seen, tick_calls, hist_buf>>
    /\ UNCHANGED aux_vars

(* ---------------------------- the tick loop ---------------------------- *)
\* what no step of a tick loop touches
loop_frame == <<rec_vars, stop_vars, calls, nstarts, start_err>>

SystemSource(samples) ==
    IF samples # <<>>
    THEN <<[samples |-> samples, audio_source |-> "System", cleaned |-> FALSE]>>
    ELSE <<>>
MicSource(samples, cleaned) ==
    <<[samples |-> samples, audio_source |-> "Mic", cleaned |-> cleaned]>>

\* where the loop goes with the list of sources still to process
ForPc(sources) == IF sources = <<>> THEN "tick" ELSE "read_offset"

Count(counts, src) == [counts EXCEPT ![src] = @ + 1]

\* ticker.tick().await, then the is_running check (live.rs 151-156)
Tick(l) ==
    /\ pc[l] = "tick"
    /\ pc' = [pc EXCEPT ![l] = IF is_running THEN "check_recording" ELSE "store_stopped"]
    /\ stop_seen' = [stop_seen EXCEPT ![l] = FALSE]
    /\ tick_calls' = [tick_calls EXCEPT ![l] = [NoTick EXCEPT !.session = nstarts]]
    /\ UNCHANGED <<live_vars, global_vars, buf_vars, sink_vars, loop_locals,
                   loop_frame, hist_buf>>
    /\ UNCHANGED aux_vars

\* the is_recording check (live.rs 158-161)
CheckRecording(l) ==
    /\ pc[l] = "check_recording"
    /\ pc' = [pc EXCEPT ![l] = IF is_recording THEN "take_mic" ELSE "store_stopped"]
    /\ UNCHANGED <<live_vars, global_vars, buf_vars, sink_vars, loop_locals,
                   loop_frame, stop_seen, tick_calls, hist_buf>>
    /\ UNCHANGED aux_vars

\* a take that copies the buffer and leaves its content in place
take_audio_buffer_copies(l) ==
    /\ pc[l] = "take_mic"
    /\ mic_samples' = [mic_samples EXCEPT ![l] = audio_buffer]
    /\ mic_drained' = mic_drained \o audio_buffer
    /\ tick_calls' = [tick_calls EXCEPT ![l].took = Count(@, "Mic")]
    /\ pc' = [pc EXCEPT ![l] = "take_system"]
    /\ UNCHANGED <<live_vars, global_vars, buf_vars, sink_vars,
                   system_samples, reference, audio_sources, time_offset, result,
                   valid_segments, loop_frame, stop_seen,
                   mic_appended, mic_cleared, sys_appended, sys_drained>>
    /\ UNCHANGED aux_vars

\* RecordingState::take_audio_buffer: mem::take under the buffer's lock
take_audio_buffer(l) ==
    /\ pc[l] = "take_mic"
    /\ mic_samples' = [mic_samples EXCEPT ![l] = audio_buffer]
    /\ audio_buffer' = <<>>
    /\ mic_drained' = mic_drained \o audio_buffer
    /\ tick_calls' = [tick_calls EXCEPT ![l].took = Count(@, "Mic")]
    /\ pc' = [pc EXCEPT ![l] = "take_system"]
    /\ UNCHANGED <<live_vars, global_vars, system_audio_buffer, sink_vars,
                   system_samples, reference, audio_sources, time_offset, result,
                   valid_segments, loop_frame, stop_seen,
                   mic_appended, mic_cleared, sys_appended, sys_drained>>
    /\ UNCHANGED aux_vars

\* take_system_audio_samples: mem::take under the buffer's lock
take_system_audio_samples(l) ==
    /\ pc[l] = "take_system"
    /\ system_samples' = [system_samples EXCEPT ![l] = system_audio_buffer]
    /\ system_audio_buffer' = <<>>
    /\ sys_drained' = sys_drained \o system_audio_buffer
    /\ IF system_audio_buffer # <<>>
       THEN /\ pc' = [pc EXCEPT ![l] = "store_reference"]
            /\ tick_calls' = [tick_calls EXCEPT ![l].took = Count(@, "System")]
       ELSE IF mic_samples[l] # <<>>
       THEN /\ pc' = [pc EXCEPT ![l] = "load_config"]
            /\ tick_calls' = [tick_calls EXCEPT ![l].took = Count(@, "System")]
       ELSE /\ pc' = [pc EXCEPT ![l] = "tick"]
            /\ tick_calls' = [tick_calls EXCEPT ![l] = NoTick]
    /\ UNCHANGED audio_sources
    /\ UNCHANGED <<live_vars, global_vars, audio_buffer, sink_vars,
                   mic_samples, reference, time_offset, result,
                   valid_segments, loop_frame, stop_seen,
                   mic_appended, mic_drained, mic_cleared, sys_appended>>
    /\ UNCHANGED aux_vars

\* store_reference_samples(&system_samples) (live.rs 167-170)
store_reference_samples(l) ==
    /\ pc[l] = "store_reference"
    /\ system_audio_reference' = StoreReference(system_audio_reference, system_samples[l])
    /\ IF mic_samples[l] # <<>>
       THEN /\ pc' = [pc EXCEPT ![l] = "load_config"]
            /\ UNCHANGED <<audio_sources, system_samples>>
       ELSE /\ audio_sources' = [audio_sources EXCEPT ![l] = SystemSource(system_samples[l])]
            /\ system_samples' = [system_samples EXCEPT ![l] = <<>>]
            /\ pc' = [pc EXCEPT ![l] = ForPc(SystemSource(system_samples[l]))]
    /\ UNCHANGED <<live_vars, aec_processor, buf_vars, sink_vars, mic_samples,
                   reference, time_offset, result, valid_segments, loop_frame,
                   stop_seen, tick_calls, hist_buf>>
    /\ UNCHANGED aux_vars

\* the sample_rate and channels loads, downmix and resampling (live.rs 177-195)
LoadConfig(l) ==
    /\ pc[l] = "load_config"
    /\ IF sample_rate > 0 /\ channels > 0
       THEN /\ mic_samples' = [mic_samples EXCEPT
                                ![l] = MicTo16k(@, sample_rate, channels)]
            /\ pc' = [pc EXCEPT ![l] = "get_reference"]
            /\ UNCHANGED <<audio_sources, system_samples, tick_calls>>
       ELSE /\ mic_samples' = [mic_samples EXCEPT ![l] = <<>>]
            /\ audio_sources' = [audio_sources EXCEPT ![l] = SystemSource(system_samples[l])]
            /\ system_samples' = [system_samples EXCEPT ![l] = <<>>]
            /\ pc' = [pc EXCEPT ![l] = ForPc(SystemSource(system_samples[l]))]
            /\ tick_calls' = [tick_calls EXCEPT
                               ![l] = IF system_samples[l] = <<>> THEN NoTick ELSE @]
    /\ UNCHANGED <<live_vars, global_vars, buf_vars, sink_vars, reference,
                   time_offset, result, valid_segments, loop_frame, stop_seen,
                   hist_buf>>
    /\ UNCHANGED aux_vars

\* get_reference_samples(mic_16k.len()) (live.rs 198-203)
get_reference_samples(l) ==
    /\ pc[l] = "get_reference"
    /\ LET ref == GetReference(system_audio_reference, Len(mic_samples[l]))
           srcs == MicSource(mic_samples[l], FALSE) \o SystemSource(system_samples[l])
       IN IF ref # <<>>
          THEN /\ reference' = [reference EXCEPT ![l] = ref]
               /\ pc' = [pc EXCEPT ![l] = "apply_aec"]
               /\ UNCHANGED <<audio_sources, mic_samples, system_samples>>
          ELSE /\ audio_sources' = [audio_sources EXCEPT ![l] = srcs]
               /\ mic_samples' = [mic_samples EXCEPT ![l] = <<>>]
               /\ system_samples' = [system_samples EXCEPT ![l] = <<>>]
               /\ pc' = [pc EXCEPT ![l] = "read_offset"]
               /\ UNCHANGED reference
    /\ UNCHANGED <<live_vars, global_vars, buf_vars, sink_vars, time_offset, result,
                   valid_segments, loop_frame, stop_seen, tick_calls, hist_buf>>
    /\ UNCHANGED aux_vars

\* AecProcessor::process on a non-empty mic block, as the scheduler observes it
Process(proc) == [proc EXCEPT !.frame_count = @ + 1]

\* aec::apply_aec(&mic_16k, &reference) (aec.rs 234-243)
apply_aec(l) ==
    /\ pc[l] = "apply_aec"
    /\ aec_processor' = IF aec_processor.present THEN Process(aec_processor)
                        ELSE aec_processor
    /\ audio_sources' = [audio_sources EXCEPT
                          ![l] = MicSource(mic_samples[l], aec_processor.present)
                                 \o SystemSource(system_samples[l])]
    /\ mic_samples' = [mic_samples EXCEPT ![l] = <<>>]
    /\ system_samples' = [system_samples EXCEPT ![l] = <<>>]
    /\ reference' = [reference EXCEPT ![l] = <<>>]
    /\ pc' = [pc EXCEPT ![l] = "read_offset"]
    /\ UNCHANGED <<live_vars, system_audio_reference, buf_vars, sink_vars,
                   time_offset, result, valid_segments, loop_frame, stop_seen,
                   tick_calls, hist_buf>>
    /\ UNCHANGED aux_vars

Last(seq) == seq[Len(seq)]
CurrentSource(l) == Head(audio_sources[l]).audio_source

\* the time_offset read of live.rs 218-221; the recognition call is dispatched
ReadOffset(l) ==
    /\ pc[l] = "read_offset"
    /\ time_offset' = [time_offset EXCEPT
                        ![l] = IF CurrentSource(l) = "Mic" THEN mic_time_offset
                               ELSE system_time_offset]
    /\ tick_calls' = [tick_calls EXCEPT ![l].recognised = Count(@, CurrentSource(l))]
    /\ pc' = [pc EXCEPT ![l] = "recognise"]
    /\ UNCHANGED <<live_vars, global_vars, buf_vars, sink_vars, mic_samples,
                   system_samples, reference, audio_sources, result, valid_segments,
                   loop_frame, stop_seen, hist_buf>>
    /\ UNCHANGED aux_vars

\* the outcomes of spawn_blocking(transcribe_samples).await (live.rs 223-226)
Outcomes(offset) ==
    {[kind |-> "JoinError", segments |-> <<>>],
     [kind |-> "TranscriptionFailed", segments |-> <<>>]}
    \cup {[kind |-> "Ok", segments |-> transcribe_samples(raw, offset)] : raw \in RawResults}

\* the end of one iteration of `for ... in audio_sources`
NextSource(l) ==
    /\ audio_sources' = [audio_sources EXCEPT ![l] = Tail(@)]
    /\ pc' = [pc EXCEPT ![l] = ForPc(Tail(audio_sources[l]))]
    /\ result' = [result EXCEPT ![l] = NoResult]
    /\ valid_segments' = [valid_segments EXCEPT ![l] = <<>>]
    /\ time_offset' = [time_offset EXCEPT ![l] = 0]
    /\ tick_calls' = [tick_calls EXCEPT
                       ![l] = IF Tail(audio_sources[l]) = <<>> THEN NoTick ELSE @]

\* Ok(Err(e)) and Err(e) of live.rs 290-295: the error is to be logged
MatchFailure(l, r) ==
    /\ result' = [result EXCEPT ![l] = r]
    /\ pc' = [pc EXCEPT ![l] = "log_error"]
    /\ tick_calls' = [tick_calls EXCEPT ![l].failed = Count(@, CurrentSource(l))]
    /\ UNCHANGED <<live_vars, audio_sources, valid_segments, time_offset>>

\* Ok(Ok(transcription)) of live.rs 229-249
MatchOk(l, r) ==
    LET segs == r.segments
        valid == FilterValid(segs)
    IN IF segs = <<>>
       THEN NextSource(l) /\ UNCHANGED live_vars
       ELSE /\ IF CurrentSource(l) = "Mic"
               THEN mic_time_offset' = Last(segs).end_time
                    /\ UNCHANGED system_time_offset
               ELSE system_time_offset' = Last(segs).end_time
                    /\ UNCHANGED mic_time_offset
            /\ IF valid = <<>>
               THEN NextSource(l)
               ELSE /\ valid_segments' = [valid_segments EXCEPT ![l] = valid]
                    /\ pc' = [pc EXCEPT ![l] = "commit"]
                    /\ UNCHANGED <<audio_sources, result, time_offset, tick_calls>>
            /\ UNCHANGED <<is_running, segments>>

\* the worker returns (recognition is never cancelled, it ends on its own)
\* and the result is matched (live.rs 226-296)
Recognise(l) ==
    /\ pc[l] = "recognise"
    /\ \E r \in Outcomes(time_offset[l]) :
          IF r.kind = "Ok" THEN MatchOk(l, r) ELSE MatchFailure(l, r)
    /\ UNCHANGED <<global_vars, buf_vars, sink_vars, mic_samples, system_samples,
                   reference, loop_frame, stop_seen, hist_buf>>
    /\ UNCHANGED aux_vars

\* an error arm that logs and then leaves the loop
LogErrorAndBreak(l) ==
    /\ pc[l] = "log_error"
    /\ pc' = [pc EXCEPT ![l] = "store_stopped"]
    /\ audio_sources' = [audio_sources EXCEPT ![l] = <<>>]
    /\ result' = [result EXCEPT ![l] = NoResult]
    /\ tick_calls' = [tick_calls EXCEPT ![l] = NoTick]
    /\ UNCHANGED <<live_vars, global_vars, buf_vars, sink_vars, mic_samples,
                   system_samples, reference, valid_segments, time_offset,
                   loop_frame, stop_seen, hist_buf>>
    /\ UNCHANGED aux_vars

\* eprintln!("Live transcription error ...") (live.rs 291, 294)
LogError(l) ==
    /\ pc[l] = "log_error"
    /\ NextSource(l)
    /\ UNCHANGED <<live_vars, global_vars, buf_vars, sink_vars, mic_samples,
                   system_samples, reference, loop_frame, stop_seen, hist_buf>>
    /\ UNCHANGED aux_vars

Row(seg, src) ==
    [start_time |-> seg.start_time, end_time |-> seg.end_time,
     text |-> seg.text, speaker |-> SpeakerOf(src)]

Kept(n, failed) == SelectSeq([j \in 1..n |-> j], LAMBDA j : j \notin failed)
\* the rows of the segments whose insert succeeded, in order
Rows(segs, src, failed) ==
    [i \in 1..Len(Kept(Len(segs), failed)) |-> Row(segs[Kept(Len(segs), failed)[i]], src)]

\* db.add_transcript_segment for each valid segment, a failed insert being
\* logged (live.rs 257-269), then segments.lock().await.extend (271-276).
\* Nothing but the tick loops touches the table, so the inserts are taken
\* together with the extend that follows them.
Commit(l) ==
    /\ pc[l] = "commit"
    /\ \E failed \in SUBSET (1..Len(valid_segments[l])) :
          db' = [db EXCEPT ![l] = @ \o Rows(valid_segments[l], CurrentSource(l), failed)]
    /\ segments' = segments \o valid_segments[l]
    /\ pc' = [pc EXCEPT ![l] = "emit"]
    /\ UNCHANGED <<is_running, mic_time_offset, system_time_offset, global_vars,
                   buf_vars, events, loop_locals, loop_frame, stop_seen,
                   tick_calls, hist_buf>>
    /\ UNCHANGED aux_vars

\* app.emit("transcription-update", event) (live.rs 279-286); the event is
\* recorded with the note of the loop, the session its tick began in and
\* the session it is emitted in
Emit(l) ==
    /\ pc[l] = "emit"
    /\ events' = Append(events, [meeting_id |-> l,
                                 segments |-> valid_segments[l], is_final |-> FALSE,
                                 audio_source |-> CurrentSource(l),
                                 tick_session |-> tick_calls[l].session,
                                 session |-> nstarts])
    /\ NextSource(l)
    /\ UNCHANGED <<live_vars, global_vars, buf_vars, db, mic_samples,
                   system_samples, reference, loop_frame, stop_seen, hist_buf>>
    /\ UNCHANGED aux_vars

\* live_state.is_running.store(false) after the loop (live.rs 300)
StoreStopped(l) ==
    /\ pc[l] = "store_stopped"
    /\ is_running' = FALSE
    /\ pc' = [pc EXCEPT ![l] = "exited"]
    /\ UNCHANGED <<mic_time_offset, system_time_offset, segments, global_vars,
                   buf_vars, sink_vars, loop_locals, loop_frame, stop_seen,
                   tick_calls, hist_buf>>
    /\ UNCHANGED aux_vars

(* ------------------------------ capture -------------------------------- *)
\* what no step of the capture side touches
capture_frame == <<live_vars, global_vars, sink_vars, pc, loop_locals, stop_vars,
                   nstarts, start_err, stop_seen, tick_calls>>

\* the command start_dual_recording (commands/audio.rs 115-172):
\* audio::start_recording (recorder.rs 64-87), then SystemAudioCapture::start
\* (windows.rs 469-510) where a capture exists and starts
start_dual_recording ==
    /\ ~is_recording
    /\ calls < MaxCalls
    /\ calls' = calls + 1
    /\ is_recording' = TRUE
    /\ nrecs' = nrecs + 1
    /\ rec_pc' = [rec_pc EXCEPT ![nrecs + 1] = "spawned"]
    /\ \E system_started \in BOOLEAN : is_capturing' = (is_capturing \/ system_started)
    /\ UNCHANGED <<sample_rate, channels, buf_vars, capture_frame, hist_buf>>
    /\ UNCHANGED aux_vars

\* the command stop_dual_recording (commands/audio.rs 177-233):
\* audio::stop_recording (recorder.rs 90-96), then SystemAudioCapture::stop,
\* which joins the capture thread (windows.rs 512-537)
stop_dual_recording ==
    /\ is_recording
    /\ calls < MaxCalls
    /\ calls' = calls + 1
    /\ is_recording' = FALSE
    /\ is_capturing' = FALSE
    /\ UNCHANGED <<sample_rate, channels, rec_pc, nrecs, buf_vars, capture_frame,
                   hist_buf>>
    /\ UNCHANGED aux_vars

\* run_recording fails before it stores the format (recorder.rs 99-104)
RecordingFailsEarly(r) ==
    /\ rec_pc[r] = "spawned"
    /\ rec_pc' = [rec_pc EXCEPT ![r] = "ended"]
    /\ UNCHANGED <<is_recording, sample_rate, channels, nrecs, is_capturing,
                   buf_vars, capture_frame, calls, hist_buf>>
    /\ UNCHANGED aux_vars

\* run_recording stores sample_rate and channels (recorder.rs 105-110)
StoreFormat(r) ==
    /\ rec_pc[r] = "spawned"
    /\ \E cfg \in DeviceConfigs :
          /\ sample_rate' = cfg.rate
          /\ channels' = cfg.ch
    /\ rec_pc' = [rec_pc EXCEPT ![r] = "clear_buffer"]
    /\ UNCHANGED <<is_recording, nrecs, is_capturing, buf_vars, capture_frame,
                   calls, hist_buf>>
    /\ UNCHANGED aux_vars

\* run_recording clears the audio buffer (recorder.rs 112-115); then the WAV
\* writer and the input stream are created and the stream plays, or one of
\* them fails and the thread ends (recorder.rs 117-170)
ClearBuffer(r) ==
    /\ rec_pc[r] = "clear_buffer"
    /\ audio_buffer' = <<>>
    /\ mic_cleared' = mic_cleared \cup {audio_buffer[i] : i \in 1..Len(audio_buffer)}
    /\ \E ok \in BOOLEAN :
          rec_pc' = [rec_pc EXCEPT ![r] = IF ok THEN "streaming" ELSE "ended"]
    /\ UNCHANGED <<is_recording, sample_rate, channels, nrecs, is_capturing,
                   system_audio_buffer, capture_frame, calls,
                   mic_appended, mic_drained, sys_appended, sys_drained>>
    /\ UNCHANGED aux_vars

\* the wait loop sees is_recording false and drops the stream (recorder.rs 172-185)
EndRecording(r) ==
    /\ rec_pc[r] = "streaming"
    /\ ~is_recording
    /\ rec_pc' = [rec_pc EXCEPT ![r] = "ended"]
    /\ UNCHANGED <<is_recording, sample_rate, channels, nrecs, is_capturing,
                   buf_vars, capture_frame, calls, hist_buf>>
    /\ UNCHANGED aux_vars

\* the samples numbered first .. first + n - 1
Block(first, n) == [i \in 1..n |-> first + i - 1]

\* the stream callback process_audio (recorder.rs 188-205): nothing is
\* appended unless is_recording is set
process_audio(r) ==
    /\ rec_pc[r] = "streaming"
    /\ is_recording
    /\ \E n \in 1..(MaxSamples - mic_appended - sys_appended) :
          /\ audio_buffer' = audio_buffer \o Block(mic_appended + 1, n)
          /\ mic_appended' = mic_appended + n
    /\ UNCHANGED <<rec_vars, system_audio_buffer, capture_frame, calls,
                   mic_drained, mic_cleared, sys_appended, sys_drained>>
    /\ UNCHANGED aux_vars

\* process_audio_data of the capture thread (windows.rs 447-450)
process_audio_data ==
    /\ is_capturing
    /\ \E n \in 1..(MaxSamples - mic_appended - sys_appended) :
          /\ system_audio_buffer' = system_audio_buffer \o Block(sys_appended + 1, n)
          /\ sys_appended' = sys_appended + n
    /\ UNCHANGED <<rec_vars, audio_buffer, capture_frame, calls,
                   mic_appended, mic_drained, mic_cleared, sys_drained>>
    /\ UNCHANGED aux_vars

(* --------------------------- specification ----------------------------- *)
Next ==
    \/ StartAccepted
    \/ StartRejected
    \/ StopStore
    \/ StopReturn
    \/ start_dual_recording
    \/ stop_dual_recording
    \/ process_audio_data
    \/ \E k \in Loops :
          \/ SpawnLoop(k)
          \/ Tick(k)
          \/ CheckRecording(k)
          \/ take_audio_buffer(k)
          \/ take_system_audio_samples(k)
          \/ store_reference_samples(k)
          \/ LoadConfig(k)
          \/ get_reference_samples(k)
          \/ apply_aec(k)
          \/ ReadOffset(k)
          \/ Recognise(k)
          \/ LogError(k)
          \/ Commit(k)
          \/ Emit(k)
          \/ StoreStopped(k)
    \/ \E r \in Recs :
          \/ RecordingFailsEarly(r)
          \/ StoreFormat(r)
          \/ ClearBuffer(r)
          \/ EndRecording(r)
          \/ process_audio(r)

Spec == Init /\ [][Next]_vars

(* ------------- a session that is started, recorded and stopped -------- *)
\* the second half of the command stop_live_transcription
\* (commands/transcription.rs 505-518): live::stop_live_transcription clones
\* the list and joins the texts (live.rs 312-323), then the command emits the
\* final event with no segments and returns the result.  The event is
\* recorded with the number of the last accepted start, with whether the
\* store of the stop found a session running or a loop at work, and with the
\* list the command returns.
stop_live_transcription ==
    /\ stop_pc = "clone"
    /\ stop_result' = [returned |-> TRUE, segments |-> segments,
                       full_text |-> JoinTexts(segments)]
    /\ events' = Append(events, [meeting_id |-> nstarts, segments |-> <<>>,
                                 is_final |-> TRUE, audio_source |-> "Mic",
                                 tick_session |-> nstarts, session |-> nstarts,
                                 was_running |-> stop_was_running,
                                 result |-> segments])
    /\ stop_pc' = "idle"
    /\ stop_was_running' = FALSE
    /\ UNCHANGED <<live_vars, global_vars, rec_vars, buf_vars, db, pc,
                   loop_locals, calls, nstarts, start_err,
                   stop_seen, tick_calls, hist_buf>>
    /\ UNCHANGED aux_vars

\* the command start_dual_recording as in the capture section, the step
\* recorded in recording_start
StartDualRecording ==
    /\ ~is_recording
    /\ calls < MaxCalls
    /\ calls' = calls + 1
    /\ is_recording' = TRUE
    /\ nrecs' = nrecs + 1
    /\ rec_pc' = [rec_pc EXCEPT ![nrecs + 1] = "spawned"]
    /\ \E system_started \in BOOLEAN : is_capturing' = (is_capturing \/ system_started)
    /\ recording_start' = [mic |-> mic_appended, sys |-> sys_appended,
                           nstarts |-> nstarts]
    /\ UNCHANGED <<sample_rate, channels, buf_vars, capture_frame, hist_buf>>
    /\ UNCHANGED <<fn_vars, db_vars, batch_vars, lock_vars, model_vars>>

\* the sessions followed from start to stop
MaxSessions == 1

\* an accepted start_live_transcription, for the first MaxSessions sessions
StartSession ==
    /\ nstarts < MaxSessions
    /\ StartAccepted

\* the commands of a session that is started, recorded and stopped, the
\* tick loops and the capture
SessionNext ==
    \/ StartSession
    \/ StopStore
    \/ stop_live_transcription
    \/ StartDualRecording
    \/ stop_dual_recording
    \/ process_audio_data
    \/ \E k \in Loops :
          \/ SpawnLoop(k)
          \/ Tick(k)
          \/ CheckRecording(k)
          \/ take_audio_buffer(k)
          \/ take_system_audio_samples(k)
          \/ store_reference_samples(k)
          \/ LoadConfig(k)
          \/ get_reference_samples(k)
          \/ apply_aec(k)
          \/ ReadOffset(k)
          \/ Recognise(k)
          \/ LogError(k)
          \/ Commit(k)
          \/ Emit(k)
          \/ StoreStopped(k)
    \/ \E r \in Recs :
          \/ RecordingFailsEarly(r)
          \/ StoreFormat(r)
          \/ ClearBuffer(r)
          \/ EndRecording(r)
          \/ process_audio(r)

SessionSpec == Init /\ [][SessionNext]_vars

(* ------------------------ load_model, delete_model --------------------- *)
\* the model commands followed, and the sizes they are called with
MaxModelCalls == 3
ModelSizeInputs == {"tiny", "Base", "huge"}

\* parse_model_size: the size in lower case if it names a model
parse_model_size(size) ==
    CASE size \in {"tiny", "Tiny"} -> "tiny"
      [] size \in {"base", "Base"} -> "base"
      [] size \in {"small", "medium", "large"} -> size
      [] OTHER -> "Err"

\* a std::sync::Mutex that no thread holds can be locked
NotHeld(m) == model_locks[m].holder = 0

\* the command of thread t returns value
ModelReturn(t, value) == [model_call EXCEPT ![t].pc = "idle", ![t].ret = value]

\* delete_model is called: parse_model_size(&size)?
DeleteModelCall(t) ==
    /\ model_call[t].pc = "idle"
    /\ model_calls < MaxModelCalls
    /\ model_calls' = model_calls + 1
    /\ \E size \in ModelSizeInputs :
          model_call' = [model_call EXCEPT ![t] =
              IF parse_model_size(size) = "Err"
              THEN [op |-> "delete_model", pc |-> "idle", size |-> "None",
                    ret |-> "Err"]
              ELSE [op |-> "delete_model", pc |-> "lock_current",
                    size |-> parse_model_size(size), ret |-> "none"]]
    /\ UNCHANGED <<current_model, transcriber, whisper_ctx, model_locks>>
    /\ UNCHANGED <<scheduler_vars, fn_vars, db_vars, batch_vars, lock_vars, mark_vars>>

\* let current = state.current_model.lock()...?; the comparison with the
\* model asked for.  The guard lives to the end of the block: through the
\* whole body of the if, or not beyond the comparison when it fails
DeleteModelLockCurrent(t) ==
    /\ model_call[t].op = "delete_model"
    /\ model_call[t].pc = "lock_current"
    /\ NotHeld("current_model")
    /\ IF model_locks["current_model"].poisoned
       THEN /\ model_call' = ModelReturn(t, "Err")
            /\ UNCHANGED model_locks
       ELSE IF current_model = model_call[t].size
       THEN /\ model_locks' = [model_locks EXCEPT !["current_model"].holder = t]
            /\ model_call' = [model_call EXCEPT ![t].pc = "unload"]
       ELSE /\ model_call' = [model_call EXCEPT ![t].pc = "manager"]
            /\ UNCHANGED model_locks
    /\ UNCHANGED <<current_model, transcriber, whisper_ctx, model_calls>>
    /\ UNCHANGED <<scheduler_vars, fn_vars, db_vars, batch_vars, lock_vars, mark_vars>>

\* the transcriber is locked, set to None and its guard dropped; an Err of
\* the lock returns and drops the guard of current_model
DeleteModelUnload(t) ==
    /\ model_call[t].pc = "unload"
    /\ NotHeld("transcriber")
    /\ IF model_locks["transcriber"].poisoned
       THEN /\ model_call' = ModelReturn(t, "Err")
            /\ model_locks' = [model_locks EXCEPT !["current_model"].holder = 0]
            /\ UNCHANGED transcriber
       ELSE /\ transcriber' = "None"
            /\ model_call' = [model_call EXCEPT ![t].pc = "relock"]
            /\ UNCHANGED model_locks
    /\ UNCHANGED <<current_model, whisper_ctx, model_calls>>
    /\ UNCHANGED <<scheduler_vars, fn_vars, db_vars, batch_vars, lock_vars, mark_vars>>

\* let mut current = state.current_model.lock()...?; *current = None.  The
\* guard taken first is shadowed, not dropped.  Locking a std::sync::Mutex
\* in the thread that holds it does not return: it deadlocks or it panics,
\* and the unwinding drops the first guard and poisons the mutex
DeleteModelRelock(t) ==
    /\ model_call[t].pc = "relock"
    /\ IF model_locks["current_model"].holder = t
       THEN /\ \E outcome \in {"blocked", "panicked"} :
                /\ model_call' = [model_call EXCEPT ![t].pc = outcome]
                /\ model_locks' = [model_locks EXCEPT !["current_model"] =
                       IF outcome = "panicked"
                       THEN [holder |-> 0, poisoned |-> TRUE]
                       ELSE @]
            /\ UNCHANGED current_model
       ELSE /\ NotHeld("current_model")
            /\ current_model' = "None"
            /\ model_call' = [model_call EXCEPT ![t].pc = "manager"]
            /\ UNCHANGED model_locks
    /\ UNCHANGED <<transcriber, whisper_ctx, model_calls>>
    /\ UNCHANGED <<scheduler_vars, fn_vars, db_vars, batch_vars, lock_vars, mark_vars>>

\* the manager is cloned and deletes the file of the model, or fails to
DeleteModelFile(t) ==
    /\ model_call[t].op = "delete_model"
    /\ model_call[t].pc = "manager"
    /\ \E ok \in BOOLEAN :
          model_call' = ModelReturn(t, IF ok THEN "Ok" ELSE "Err")
    /\ UNCHANGED <<current_model, transcriber, whisper_ctx, model_locks, model_calls>>
    /\ UNCHANGED <<scheduler_vars, fn_vars, db_vars, batch_vars, lock_vars, mark_vars>>

\* load_model is called: parse_model_size(&size)?
LoadModelCall(t) ==
    /\ model_call[t].pc = "idle"
    /\ model_calls < MaxModelCalls
    /\ model_calls' = model_calls + 1
    /\ \E size \in ModelSizeInputs :
          model_call' = [model_call EXCEPT ![t] =
              IF parse_model_size(size) = "Err"
              THEN [op |-> "load_model", pc |-> "idle", size |-> "None",
                    ret |-> "Err"]
              ELSE [op |-> "load_model", pc |-> "lock_current",
                    size |-> parse_model_size(size), ret |-> "none"]]
    /\ UNCHANGED <<current_model, transcriber, whisper_ctx, model_locks>>
    /\ UNCHANGED <<scheduler_vars, fn_vars, db_vars, batch_vars, lock_vars, mark_vars>>

\* the check for a model that is loaded already; the guard is dropped at the
\* end of the block
LoadModelCheck(t) ==
    /\ model_call[t].op = "load_model"
    /\ model_call[t].pc = "lock_current"
    /\ NotHeld("current_model")
    /\ model_call' =
          IF model_locks["current_model"].poisoned THEN ModelReturn(t, "Err")
          ELSE IF current_model = model_call[t].size THEN ModelReturn(t, "Ok")
          ELSE [model_call EXCEPT ![t].pc = "path"]
    /\ UNCHANGED <<current_model, transcriber, whisper_ctx, model_locks, model_calls>>
    /\ UNCHANGED <<scheduler_vars, fn_vars, db_vars, batch_vars, lock_vars, mark_vars>>

\* the path of the model, Transcriber::new and WhisperContext::new_with_params:
\* a model that is not downloaded or does not load returns an Err
LoadModelFile(t) ==
    /\ model_call[t].pc = "path"
    /\ \E ok \in BOOLEAN :
          model_call' = IF ok
                        THEN [model_call EXCEPT ![t].pc = "store_transcriber"]
                        ELSE ModelReturn(t, "Err")
    /\ UNCHANGED <<current_model, transcriber, whisper_ctx, model_locks, model_calls>>
    /\ UNCHANGED <<scheduler_vars, fn_vars, db_vars, batch_vars, lock_vars, mark_vars>>

\* *t = Some(Arc::new(transcriber))
LoadModelStoreTranscriber(t) ==
    /\ model_call[t].pc = "store_transcriber"
    /\ NotHeld("transcriber")
    /\ IF model_locks["transcriber"].poisoned
       THEN /\ model_call' = ModelReturn(t, "Err")
            /\ UNCHANGED transcriber
       ELSE /\ transcriber' = model_call[t].size
            /\ model_call' = [model_call EXCEPT ![t].pc = "store_ctx"]
    /\ UNCHANGED <<current_model, whisper_ctx, model_locks, model_calls>>
    /\ UNCHANGED <<scheduler_vars, fn_vars, db_vars, batch_vars, lock_vars, mark_vars>>

\* *ctx = Some(Arc::new(whisper_ctx))
LoadModelStoreContext(t) ==
    /\ model_call[t].pc = "store_ctx"
    /\ whisper_ctx' = model_call[t].size
    /\ model_call' = [model_call EXCEPT ![t].pc = "store_current"]
    /\ UNCHANGED <<current_model, transcriber, model_locks, model_calls>>
    /\ UNCHANGED <<scheduler_vars, fn_vars, db_vars, batch_vars, lock_vars, mark_vars>>

\* *current = Some(model_size); Ok(())
LoadModelStoreCurrent(t) ==
    /\ model_call[t].pc = "store_current"
    /\ NotHeld("current_model")
    /\ IF model_locks["current_model"].poisoned
       THEN /\ model_call' = ModelReturn(t, "Err")
            /\ UNCHANGED current_model
       ELSE /\ current_model' = model_call[t].size
            /\ model_call' = ModelReturn(t, "Ok")
    /\ UNCHANGED <<transcriber, whisper_ctx, model_locks, model_calls>>
    /\ UNCHANGED <<scheduler_vars, fn_vars, db_vars, batch_vars, lock_vars, mark_vars>>

ModelNext ==
    \E t \in ModelThreads :
        \/ DeleteModelCall(t)
        \/ DeleteModelLockCurrent(t)
        \/ DeleteModelUnload(t)
        \/ DeleteModelRelock(t)
        \/ DeleteModelFile(t)
        \/ LoadModelCall(t)
        \/ LoadModelCheck(t)
        \/ LoadModelFile(t)
        \/ LoadModelStoreTranscriber(t)
        \/ LoadModelStoreContext(t)
        \/ LoadModelStoreCurrent(t)

ModelSpec == Init /\ [][ModelNext]_vars

(* ------------------- cross-stream echo suppression --------------------- *)
\* commands/transcription.rs. A text is given as the sequence of its
\* whitespace-separated words, which is what split_whitespace yields.

\* longest text, in words
MaxWords == 6
\* longest system segment list
MaxSystem == 2

\* the words texts are made of: one with an upper-case variant, one without
Vocabulary == {"a", "A", "b"}

RECURSIVE SeqsUpTo(_, _)
\* the sequences over set of length at most n
SeqsUpTo(set, n) ==
    IF n = 0 THEN {<<>>}
    ELSE LET shorter == SeqsUpTo(set, n - 1)
         IN shorter \cup {Append(s, x) : s \in {t \in shorter : Len(t) = n - 1},
                                         x \in set}

MicTexts == SeqsUpTo(Vocabulary, MaxWords)
\* the mic segment lasts two seconds
MicIntervals == {<<100, 300>>}
\* system texts of every length up to one more than the five words compared
SystemTexts ==
    {<<>>, <<"a">>, <<"b", "A">>, <<"a", "b", "a">>, <<"A", "b", "a", "b">>,
     <<"b", "a", "b", "a", "b">>, <<"a", "a", "a", "a", "a", "b">>}
\* system segments overlapping the mic segment by 0.5 s, by exactly 1 s, and
\* by 1.5 s
SystemIntervals == {<<0, 150>>, <<0, 200>>, <<150, 400>>}
SystemSegments ==
    {<<iv[1], iv[2], text>> : iv \in SystemIntervals, text \in SystemTexts}

Max(a, b) == IF a > b THEN a ELSE b
\* Iterator::take
Take(s, n) == SubSeq(s, 1, Min(n, Len(s)))
\* to_lowercase of a text, word by word
Lowered(words) == [i \in 1..Len(words) |-> ToLowercase(words[i])]
\* slice::contains
Holds(words, w) == \E i \in 1..Len(words) : words[i] = w
\* mic_words.iter().filter(|w| sys_words.contains(w)).count()
Matches(mic_words, sys_words) ==
    Cardinality({i \in 1..Len(mic_words) : Holds(sys_words, mic_words[i])})
\* overlap_end - overlap_start of the mic interval and a system segment
Overlap(mic_start, mic_end, sys) ==
    Min(mic_end, sys[2]) - Max(mic_start, sys[1])

RECURSIVE EchoFrom(_, _, _, _, _)
\* the for loop of is_echo_of_system from its i-th iteration on
EchoFrom(mic_words, mic_start, mic_end, system_segments, i) ==
    IF i > Len(system_segments) THEN FALSE
    ELSE IF Overlap(mic_start, mic_end, system_segments[i]) < 100
    THEN EchoFrom(mic_words, mic_start, mic_end, system_segments, i + 1)
    ELSE LET sys_words == Take(Lowered(system_segments[i][3]), 5)
             matches == Matches(mic_words, sys_words)
         IN IF matches >= 3 \/ (matches >= 2 /\ Len(mic_words) <= 3)
            THEN TRUE
            ELSE EchoFrom(mic_words, mic_start, mic_end, system_segments, i + 1)

\* split_whitespace on the texts the recogniser produces
Words(text) ==
    IF text = "hello there" THEN <<"hello", "there">>
    ELSE IF text = "oh [MUSIC]" THEN <<"oh", "[MUSIC]">>
    ELSE IF text \in {"", " "} THEN <<>>
    ELSE <<text>>

\* the rule without the two-match case of short mic segments
is_echo_needs_three(mic_text, mic_start, mic_end, system_segments) ==
    \E i \in 1..Len(system_segments) :
        /\ Overlap(mic_start, mic_end, system_segments[i]) >= 100
        /\ Matches(Take(Lowered(mic_text), 5),
                   Take(Lowered(system_segments[i][3]), 5)) >= 3

\* the rule looking at the first system segment only
is_echo_of_first_system(mic_text, mic_start, mic_end, system_segments) ==
    /\ Len(system_segments) > 0
    /\ EchoFrom(Take(Lowered(mic_text), 5), mic_start, mic_end,
                SubSeq(system_segments, 1, 1), 1)

is_echo_of_system(mic_text, mic_start, mic_end, system_segments) ==
    IF Len(system_segments) = 0 THEN FALSE
    ELSE LET mic_words == Take(Lowered(mic_text), 5)
         IN IF Len(mic_words) = 0 THEN FALSE
            ELSE EchoFrom(mic_words, mic_start, mic_end, system_segments, 1)

\* the calls of is_echo_of_system
EchoCalls ==
    {[op |-> "is_echo_of_system", mic_text |-> text, mic_start |-> iv[1],
      mic_end |-> iv[2], system_segments |-> systems] :
        text \in MicTexts, iv \in MicIntervals,
        systems \in SeqsUpTo(SystemSegments, MaxSystem)}

CallIsEcho ==
    /\ call.op = "is_echo_of_system"
    /\ ~ret.done
    /\ ret' = [done |-> TRUE,
               value |-> is_echo_of_system(call.mic_text, call.mic_start,
                                           call.mic_end, call.system_segments)]
    /\ UNCHANGED <<call, fn_frame>>

(* ------------------- reference slice of a mic block -------------------- *)
\* longest reference window and longest mic block, in samples
MaxWindow == 3

\* the first n samples captured
FirstSamples(n) == [i \in 1..n |-> i]

\* the AEC stage of a tick with a non-empty mic block (live.rs 197-204): the
\* slice get_reference_samples returns for the block and whether apply_aec
\* is called with it
AecStage(buffer, mic_16k) ==
    LET ref == GetReference(buffer, Len(mic_16k))
    IN [reference |-> ref, applied |-> ref # <<>>]

\* the cached windows and non-empty mic blocks of a tick
StageCalls ==
    {[op |-> "aec_stage", buffer |-> FirstSamples(n), mic_16k |-> FirstSamples(m)] :
        n \in 0..MaxWindow, m \in 1..MaxWindow}

CallAecStage ==
    /\ call.op = "aec_stage"
    /\ ~ret.done
    /\ ret' = [done |-> TRUE, value |-> AecStage(call.buffer, call.mic_16k)]
    /\ UNCHANGED <<call, fn_frame>>

(* ----------------- specification of the pure functions ------------------ *)
FnCalls == EchoCalls \cup StageCalls

FnInit ==
    /\ LiveInit
    /\ DbInit
    /\ BatchInit
    /\ LockInit
    /\ AecIdle
    /\ call \in FnCalls
    /\ ret = NoRet

FnNext ==
    \/ CallIsEcho
    \/ CallAecStage

FnSpec == FnInit /\ [][FnNext]_vars

(* --------------------- transcript segment storage ---------------------- *)
\* db/mod.rs. The table is the set of its rows; a row's id is its rowid.

\* most rows ever inserted
MaxRows == 4

Notes == {"n1", "n2"}
\* start times of inserted segments; each segment lasts one second
StartTimes == {0, 100}
\* (source_type, source_id) of inserted segments
RowSources == {<<"segment", 1>>, <<"upload", 1>>}

\* the INSERT of add_transcript_segment: the table with the new row
Inserted(table, rowid, note_id, start_time, end_time, text, speaker, source_type, source_id) ==
    table \cup {[id |-> rowid, note_id |-> note_id, start_time |-> start_time,
                 end_time |-> end_time, text |-> text, speaker |-> speaker,
                 source_type |-> source_type, source_id |-> source_id]}

add_transcript_segment ==
    /\ last_insert_rowid < MaxRows
    /\ \E note_id \in Notes, start_time \in StartTimes, src \in RowSources :
          transcript_segments' =
              Inserted(transcript_segments, last_insert_rowid + 1, note_id,
                       start_time, start_time + 100, "hello there", "You",
                       src[1], src[2])
    /\ last_insert_rowid' = last_insert_rowid + 1
    /\ fetched' = NoFetch
    /\ UNCHANGED db_frame

\* the sequences that list every element of set once
Orderings(set) ==
    {seq \in [1..Cardinality(set) -> set] :
        \A i, j \in 1..Cardinality(set) : i # j => seq[i] # seq[j]}
\* ORDER BY start_time ASC: rows with equal start times come in any order
OrderedByStartTime(seq) ==
    \A i \in 1..(Len(seq) - 1) : seq[i].start_time <= seq[i + 1].start_time
\* ordered by rowid, the order of insertion
OrderedById(seq) ==
    \A i \in 1..(Len(seq) - 1) : seq[i].id < seq[i + 1].id

\* a query that returns the rows of the note in insertion order
get_in_insertion_order ==
    /\ \E note_id \in Notes :
          \E seq \in Orderings({r \in transcript_segments : r.note_id = note_id}) :
              /\ OrderedById(seq)
              /\ fetched' = [queried |-> TRUE, note_id |-> note_id, segments |-> seq]
    /\ UNCHANGED <<transcript_segments, last_insert_rowid, db_frame>>

get_transcript_segments ==
    /\ \E note_id \in Notes :
          \E seq \in Orderings({r \in transcript_segments : r.note_id = note_id}) :
              /\ OrderedByStartTime(seq)
              /\ fetched' = [queried |-> TRUE, note_id |-> note_id, segments |-> seq]
    /\ UNCHANGED <<transcript_segments, last_insert_rowid, db_frame>>

delete_transcript_segments ==
    /\ \E note_id \in Notes :
          transcript_segments' = {r \in transcript_segments : r.note_id # note_id}
    /\ fetched' = NoFetch
    /\ UNCHANGED <<last_insert_rowid, db_frame>>

delete_transcript_segments_by_source ==
    /\ \E src \in RowSources :
          transcript_segments' =
              {r \in transcript_segments :
                  ~(r.source_type = src[1] /\ r.source_id = src[2])}
    /\ fetched' = NoFetch
    /\ UNCHANGED <<last_insert_rowid, db_frame>>

(* -------------------- specification of the storage --------------------- *)
DbNext ==
    \/ add_transcript_segment
    \/ get_transcript_segments
    \/ delete_transcript_segments
    \/ delete_transcript_segments_by_source

DbSpec == Init /\ [][DbNext]_vars

(* -------------------- file-transcription commands ---------------------- *)
\* commands/transcription.rs and commands/upload.rs. A command is admitted by
\* its swap of is_transcribing; what follows the swap is taken as one step,
\* since the flag keeps the other commands out meanwhile.

\* most commands issued
MaxCommands == 2

\* what Transcriber::transcribe returns for a file
FileResults ==
    {[kind |-> "err", segments |-> <<>>],
     [kind |-> "ok", segments |->
        <<[start_time |-> 0, end_time |-> 100, text |-> "hello there"],
          [start_time |-> 100, end_time |-> 200, text |-> "[Laughter]"]>>],
     [kind |-> "ok", segments |->
        <<[start_time |-> 0, end_time |-> 100, text |-> "A"],
          [start_time |-> 100, end_time |-> 200, text |-> "hello there"]>>],
     [kind |-> "ok", segments |->
        <<[start_time |-> 0, end_time |-> 100, text |-> "oh [MUSIC]"],
          [start_time |-> 100, end_time |-> 200, text |-> " "]>>]}

\* the inline test of transcribe_uploaded_audio (upload.rs 177-185)
upload_skips(text) ==
    \/ \E marker \in {"[blank_audio]", "[inaudible]", "[silence]", "[music]"} :
          Contains(ToLowercase(text), marker)
    \/ Trim(text) = ""

RECURSIVE InsertAll(_, _, _, _, _, _, _)
\* add_transcript_segment for each segment of segs in turn
InsertAll(table, rowid, note_id, segs, speaker, source_type, source_id) ==
    IF segs = <<>> THEN table
    ELSE InsertAll(Inserted(table, rowid + 1, note_id, Head(segs).start_time,
                            Head(segs).end_time, Head(segs).text, speaker,
                            source_type, source_id),
                   rowid + 1, note_id, Tail(segs), speaker, source_type,
                   source_id)

\* the segments whose insert succeeded when the inserts in failed did not
Surviving(segs, failed) ==
    [i \in 1..Len(Kept(Len(segs), failed)) |-> segs[Kept(Len(segs), failed)[i]]]
\* the segments inserted before the k-th insert failed and ended the
\* command; all of them when k = 0
Before(segs, k) == IF k = 0 THEN segs ELSE SubSeq(segs, 1, k - 1)

\* system_segments_for_echo
EchoList(segs) ==
    [i \in 1..Len(segs) |->
        <<segs[i].start_time, segs[i].end_time, Words(segs[i].text)>>]
\* the mic segments that are not noise, echoes included
MicKeptUnfiltered(segs, system_segments_for_echo) == FilterValid(segs)

\* the mic segments that are neither noise nor an echo of the system list
MicKept(segs, system_segments_for_echo) ==
    SelectSeq(FilterValid(segs),
              LAMBDA seg : ~is_echo_of_system(Words(seg.text), seg.start_time,
                                              seg.end_time,
                                              system_segments_for_echo))

\* if state.is_transcribing.swap(true, SeqCst) { return Err(...) }
Admit(c) ==
    /\ batch_calls < MaxCommands
    /\ batch_pc[c] = "idle"
    /\ batch_calls' = batch_calls + 1
    /\ is_transcribing' = TRUE
    /\ IF is_transcribing
       THEN /\ returned' = [cmd |-> c, ok |-> FALSE]
            /\ UNCHANGED batch_pc
       ELSE /\ batch_pc' = [batch_pc EXCEPT ![c] = "admitted"]
            /\ UNCHANGED returned
    /\ UNCHANGED <<transcript_segments, last_insert_rowid, upload_status,
                   last_results, batch_frame>>

\* the command c returns ok, leaving the table, the rowid and the flag as given
Return(c, ok, table, rowid, flag) ==
    /\ batch_pc[c] = "admitted"
    /\ batch_pc' = [batch_pc EXCEPT ![c] = "idle"]
    /\ returned' = [cmd |-> c, ok |-> ok]
    /\ transcript_segments' = table
    /\ last_insert_rowid' = rowid
    /\ is_transcribing' = flag
    /\ UNCHANGED <<batch_calls, batch_frame>>

\* transcribe_audio after the swap (transcription.rs 284-318)
transcribe_audio ==
    /\ UNCHANGED <<upload_status, last_results>>
    /\ \/ \* no model loaded, or the recognition failed
          Return("transcribe_audio", FALSE, transcript_segments,
                 last_insert_rowid, FALSE)
       \/ \E note_id \in Notes, file_result \in FileResults :
             /\ file_result.kind = "ok"
             /\ LET valid == FilterValid(file_result.segments)
                IN \E k \in 0..Len(valid) :
                      Return("transcribe_audio", k = 0,
                             InsertAll(transcript_segments, last_insert_rowid,
                                       note_id, Before(valid, k), "You", "none", 0),
                             last_insert_rowid + Len(Before(valid, k)),
                             \* an insert error returns without the store
                             k # 0)

\* transcribe_dual_audio after the swap (transcription.rs 357-446), with a
\* system file
transcribe_dual_audio ==
    /\ UNCHANGED <<upload_status, last_results>>
    /\ \/ \* no model loaded, or the mic recognition failed
          Return("transcribe_dual_audio", FALSE, transcript_segments,
                 last_insert_rowid, FALSE)
       \/ \E note_id \in Notes, mic_result \in FileResults,
             system_result \in FileResults :
             /\ mic_result.kind = "ok"
             /\ LET mic == FilterValid(mic_result.segments)
                    sys == FilterValid(system_result.segments)
                IN \E k \in 0..Len(mic) :
                      LET with_mic ==
                              InsertAll(transcript_segments, last_insert_rowid,
                                        note_id, Before(mic, k), "You", "none", 0)
                          rowid == last_insert_rowid + Len(Before(mic, k))
                      IN IF k # 0
                         THEN Return("transcribe_dual_audio", FALSE, with_mic,
                                     rowid, TRUE)
                         ELSE \E j \in 0..Len(sys) :
                                 Return("transcribe_dual_audio", j = 0,
                                        InsertAll(with_mic, rowid, note_id,
                                                  Before(sys, j), "Others",
                                                  "none", 0),
                                        rowid + Len(Before(sys, j)), j # 0)

\* what the two recognitions of a retranscription returned
Results(c, system_result, mic_result, insert_failed) ==
    [cmd |-> c, system |-> system_result, mic |-> mic_result,
     insert_failed |-> insert_failed]

\* retranscribe_audio_segment after the swap (transcription.rs 554-651), for
\* audio segment 1 of note "n1", with or without a system file
retranscribe_audio_segment ==
    /\ UNCHANGED upload_status
    /\ \/ \* the delete failed
          /\ Return("retranscribe_audio_segment", FALSE, transcript_segments,
                    last_insert_rowid, FALSE)
          /\ UNCHANGED last_results
       \/ LET deleted == {r \in transcript_segments :
                              ~(r.source_type = "segment" /\ r.source_id = 1)}
          IN \/ \* no model loaded
                /\ Return("retranscribe_audio_segment", FALSE, deleted,
                          last_insert_rowid, FALSE)
                /\ last_results' = Results("retranscribe_audio_segment", NoFile,
                                           NoFile, FALSE)
             \/ \E system_result \in FileResults \cup {NoFile},
                   mic_result \in FileResults :
                   LET sys == FilterValid(system_result.segments)
                   IN \E j \in 0..Len(sys) :
                         LET with_sys ==
                                 InsertAll(deleted, last_insert_rowid, "n1",
                                           Before(sys, j), "Others", "segment", 1)
                             rowid == last_insert_rowid + Len(Before(sys, j))
                             mic == MicKept(mic_result.segments, EchoList(sys))
                         IN IF j # 0
                            THEN /\ Return("retranscribe_audio_segment", FALSE,
                                           with_sys, rowid, TRUE)
                                 /\ last_results' =
                                        Results("retranscribe_audio_segment",
                                                system_result, NoFile, TRUE)
                            ELSE IF mic_result.kind = "err"
                            THEN /\ Return("retranscribe_audio_segment", FALSE,
                                           with_sys, rowid, FALSE)
                                 /\ last_results' =
                                        Results("retranscribe_audio_segment",
                                                system_result, mic_result, FALSE)
                            ELSE \E k \in 0..Len(mic) :
                                    /\ Return("retranscribe_audio_segment", k = 0,
                                              InsertAll(with_sys, rowid, "n1",
                                                        Before(mic, k), "You",
                                                        "segment", 1),
                                              rowid + Len(Before(mic, k)), k # 0)
                                    /\ last_results' =
                                           Results("retranscribe_audio_segment",
                                                   system_result, mic_result,
                                                   k # 0)

\* retranscribe_note after the swap (transcription.rs 667-924), for note
\* "n1" with audio segment 1, with or without a system file, and upload 1
retranscribe_note ==
    \/ \* no model loaded, or a query or the delete failed
       /\ Return("retranscribe_note", FALSE, transcript_segments,
                 last_insert_rowid, FALSE)
       /\ UNCHANGED <<upload_status, last_results>>
    \/ \E system_result \in FileResults \cup {NoFile}, mic_result \in FileResults,
          upload_result \in FileResults :
          LET deleted == {r \in transcript_segments : r.note_id # "n1"}
              sys == FilterValid(system_result.segments)
              mic == MicKept(mic_result.segments, EchoList(sys))
              up == FilterValid(upload_result.segments)
          IN \E sys_failed \in SUBSET (1..Len(sys)),
                mic_failed \in SUBSET (1..Len(mic)),
                up_failed \in SUBSET (1..Len(up)) :
                LET sys_saved == Surviving(sys, sys_failed)
                    mic_saved == Surviving(mic, mic_failed)
                    up_saved == Surviving(up, up_failed)
                    with_sys == InsertAll(deleted, last_insert_rowid, "n1",
                                          sys_saved, "Others", "segment", 1)
                    with_mic == InsertAll(with_sys,
                                          last_insert_rowid + Len(sys_saved),
                                          "n1", mic_saved, "You", "segment", 1)
                    rowid == last_insert_rowid + Len(sys_saved) + Len(mic_saved)
                    without_upload ==
                        {r \in with_mic :
                            ~(r.source_type = "upload" /\ r.source_id = 1)}
                IN /\ Return("retranscribe_note", TRUE,
                             InsertAll(without_upload, rowid, "n1", up_saved,
                                       "Speaker", "upload", 1),
                             rowid + Len(up_saved), FALSE)
                   /\ upload_status' = IF upload_result.kind = "ok"
                                       THEN "completed" ELSE "failed"
                   /\ last_results' =
                          Results("retranscribe_note", system_result, mic_result,
                                  sys_failed # {} \/ mic_failed # {})

\* transcribe_uploaded_audio after the swap (upload.rs 140-205), for upload 1
\* of note "n1"
transcribe_uploaded_audio ==
    /\ UNCHANGED last_results
    /\ \/ \* the status update failed
          /\ Return("transcribe_uploaded_audio", FALSE, transcript_segments,
                    last_insert_rowid, FALSE)
          /\ UNCHANGED upload_status
       \/ \* no model loaded
          /\ Return("transcribe_uploaded_audio", FALSE, transcript_segments,
                    last_insert_rowid, FALSE)
          /\ upload_status' = "processing"
       \/ \E file_result \in FileResults :
             IF file_result.kind = "err"
             THEN /\ Return("transcribe_uploaded_audio", FALSE,
                            transcript_segments, last_insert_rowid, FALSE)
                  /\ upload_status' = "failed"
             ELSE LET kept == SelectSeq(file_result.segments,
                                        LAMBDA seg : ~upload_skips(seg.text))
                  \* the k-th insert fails, or none does and the update to
                  \* "completed" succeeds or fails; either error returns
                  \* without the store of the flag
                  IN \E k \in 0..Len(kept), completed \in BOOLEAN :
                        /\ Return("transcribe_uploaded_audio", k = 0 /\ completed,
                                  InsertAll(transcript_segments, last_insert_rowid,
                                            "n1", Before(kept, k), "Speaker",
                                            "none", 0),
                                  last_insert_rowid + Len(Before(kept, k)),
                                  ~(k = 0 /\ completed))
                        /\ upload_status' = IF k = 0 /\ completed THEN "completed"
                                            ELSE "processing"

(* ---------- specification of the file-transcription commands ----------- *)
BatchNext ==
    \/ \E c \in BatchCommands : Admit(c)
    \/ transcribe_audio
    \/ transcribe_dual_audio
    \/ retranscribe_audio_segment
    \/ retranscribe_note
    \/ transcribe_uploaded_audio

BatchSpec == Init /\ [][BatchNext]_vars

(* ------------------------- the buffer mutexes -------------------------- *)
\* The accesses to the two sample buffers with the acquisition of the mutex
\* as a step of its own: a task at a "lock" position whose mutex is held by
\* another task is blocked. The guard is a temporary of the function that
\* takes it, so each access releases the mutex in the step that operates on
\* the buffer.

Holder(kind, task) == [kind |-> kind, task |-> task]

\* self.audio_buffer.lock() in take_audio_buffer (recorder.rs 39)
lock_audio_buffer(l) ==
    /\ pc[l] = "take_mic"
    /\ audio_buffer_lock = Free
    /\ audio_buffer_lock' = Holder("drain", l)
    /\ pc' = [pc EXCEPT ![l] = "holding_mic"]
    /\ UNCHANGED <<live_vars, global_vars, buf_vars, sink_vars, loop_locals,
                   loop_frame, stop_seen, tick_calls, hist_buf>>
    /\ UNCHANGED <<fn_vars, db_vars, batch_vars, mark_vars, model_vars, system_buffer_lock,
                   callback_pc, capture_pc>>

\* std::mem::take(&mut *buffer) and the drop of the guard (recorder.rs 40)
take_audio_buffer_locked(l) ==
    /\ pc[l] = "holding_mic"
    /\ mic_samples' = [mic_samples EXCEPT ![l] = audio_buffer]
    /\ audio_buffer' = <<>>
    /\ mic_drained' = mic_drained \o audio_buffer
    /\ tick_calls' = [tick_calls EXCEPT ![l].took = Count(@, "Mic")]
    /\ pc' = [pc EXCEPT ![l] = "take_system"]
    /\ audio_buffer_lock' = Free
    /\ UNCHANGED <<live_vars, global_vars, system_audio_buffer, sink_vars,
                   system_samples, reference, audio_sources, time_offset, result,
                   valid_segments, loop_frame, stop_seen,
                   mic_appended, mic_cleared, sys_appended, sys_drained>>
    /\ UNCHANGED <<fn_vars, db_vars, batch_vars, mark_vars, model_vars, system_buffer_lock,
                   callback_pc, capture_pc>>

\* get_system_audio_buffer().lock() in take_system_audio_samples
\* (windows.rs 44)
lock_system_audio_buffer(l) ==
    /\ pc[l] = "take_system"
    /\ system_buffer_lock = Free
    /\ system_buffer_lock' = Holder("drain", l)
    /\ pc' = [pc EXCEPT ![l] = "holding_system"]
    /\ UNCHANGED <<live_vars, global_vars, buf_vars, sink_vars, loop_locals,
                   loop_frame, stop_seen, tick_calls, hist_buf>>
    /\ UNCHANGED <<fn_vars, db_vars, batch_vars, mark_vars, model_vars, audio_buffer_lock,
                   callback_pc, capture_pc>>

\* std::mem::take(&mut *buffer) and the drop of the guard (windows.rs 45)
take_system_audio_samples_locked(l) ==
    /\ pc[l] = "holding_system"
    /\ system_samples' = [system_samples EXCEPT ![l] = system_audio_buffer]
    /\ system_audio_buffer' = <<>>
    /\ sys_drained' = sys_drained \o system_audio_buffer
    /\ IF system_audio_buffer # <<>>
       THEN /\ pc' = [pc EXCEPT ![l] = "store_reference"]
            /\ tick_calls' = [tick_calls EXCEPT ![l].took = Count(@, "System")]
       ELSE IF mic_samples[l] # <<>>
       THEN /\ pc' = [pc EXCEPT ![l] = "load_config"]
            /\ tick_calls' = [tick_calls EXCEPT ![l].took = Count(@, "System")]
       ELSE /\ pc' = [pc EXCEPT ![l] = "tick"]
            /\ tick_calls' = [tick_calls EXCEPT ![l] = NoTick]
    /\ system_buffer_lock' = Free
    /\ UNCHANGED <<live_vars, global_vars, audio_buffer, sink_vars,
                   mic_samples, reference, audio_sources, time_offset, result,
                   valid_segments, loop_frame, stop_seen,
                   mic_appended, mic_drained, mic_cleared, sys_appended>>
    /\ UNCHANGED <<fn_vars, db_vars, batch_vars, mark_vars, model_vars, audio_buffer_lock,
                   callback_pc, capture_pc>>

\* state.audio_buffer.lock() in run_recording (recorder.rs 113)
lock_for_clear(r) ==
    /\ rec_pc[r] = "clear_buffer"
    /\ audio_buffer_lock = Free
    /\ audio_buffer_lock' = Holder("clear", r)
    /\ rec_pc' = [rec_pc EXCEPT ![r] = "holding_buffer"]
    /\ UNCHANGED <<is_recording, sample_rate, channels, nrecs, is_capturing,
                   buf_vars, capture_frame, calls, hist_buf>>
    /\ UNCHANGED <<fn_vars, db_vars, batch_vars, mark_vars, model_vars, system_buffer_lock,
                   callback_pc, capture_pc>>

\* buffer.clear() and the drop of the guard (recorder.rs 114-115); then the
\* WAV writer and the stream are created, or the thread ends
ClearBufferLocked(r) ==
    /\ rec_pc[r] = "holding_buffer"
    /\ audio_buffer' = <<>>
    /\ mic_cleared' = mic_cleared \cup {audio_buffer[i] : i \in 1..Len(audio_buffer)}
    /\ \E ok \in BOOLEAN :
          rec_pc' = [rec_pc EXCEPT ![r] = IF ok THEN "streaming" ELSE "ended"]
    /\ audio_buffer_lock' = Free
    /\ UNCHANGED <<is_recording, sample_rate, channels, nrecs, is_capturing,
                   system_audio_buffer, capture_frame, calls,
                   mic_appended, mic_drained, sys_appended, sys_drained>>
    /\ UNCHANGED <<fn_vars, db_vars, batch_vars, mark_vars, model_vars, system_buffer_lock,
                   callback_pc, capture_pc>>

\* the stream callback passes the is_recording check of process_audio and
\* reaches state.audio_buffer.lock() (recorder.rs 193-203)
process_audio_enter(r) ==
    /\ rec_pc[r] = "streaming"
    /\ is_recording
    /\ callback_pc[r] = "idle"
    /\ mic_appended + sys_appended < MaxSamples
    /\ callback_pc' = [callback_pc EXCEPT ![r] = "lock"]
    /\ UNCHANGED <<scheduler_vars, fn_vars, db_vars, batch_vars, mark_vars, model_vars,
                   audio_buffer_lock, system_buffer_lock, capture_pc>>

\* the callback gets the mutex (recorder.rs 203)
process_audio_lock(r) ==
    /\ callback_pc[r] = "lock"
    /\ audio_buffer_lock = Free
    /\ audio_buffer_lock' = Holder("append", r)
    /\ callback_pc' = [callback_pc EXCEPT ![r] = "holding"]
    /\ UNCHANGED <<scheduler_vars, fn_vars, db_vars, batch_vars, mark_vars, model_vars,
                   system_buffer_lock, capture_pc>>

\* buffer.extend_from_slice(data) and the drop of the guard (recorder.rs
\* 204-205)
process_audio_extend(r) ==
    /\ callback_pc[r] = "holding"
    /\ \E n \in 1..Max(1, MaxSamples - mic_appended - sys_appended) :
          /\ audio_buffer' = audio_buffer \o Block(mic_appended + 1, n)
          /\ mic_appended' = mic_appended + n
    /\ audio_buffer_lock' = Free
    /\ callback_pc' = [callback_pc EXCEPT ![r] = "idle"]
    /\ UNCHANGED <<rec_vars, system_audio_buffer, capture_frame, calls,
                   mic_drained, mic_cleared, sys_appended, sys_drained>>
    /\ UNCHANGED <<fn_vars, db_vars, batch_vars, mark_vars, model_vars, system_buffer_lock, capture_pc>>

\* the capture thread reaches get_system_audio_buffer().lock() in
\* process_audio_data (windows.rs 448)
process_audio_data_enter ==
    /\ is_capturing
    /\ capture_pc = "idle"
    /\ mic_appended + sys_appended < MaxSamples
    /\ capture_pc' = "lock"
    /\ UNCHANGED <<scheduler_vars, fn_vars, db_vars, batch_vars, mark_vars, model_vars,
                   audio_buffer_lock, system_buffer_lock, callback_pc>>

\* the capture thread gets the mutex (windows.rs 448)
process_audio_data_lock ==
    /\ capture_pc = "lock"
    /\ system_buffer_lock = Free
    /\ system_buffer_lock' = Holder("append", 0)
    /\ capture_pc' = "holding"
    /\ UNCHANGED <<scheduler_vars, fn_vars, db_vars, batch_vars, mark_vars, model_vars,
                   audio_buffer_lock, callback_pc>>

\* buffer.extend(downsampled) and the drop of the guard (windows.rs 449-450)
process_audio_data_extend ==
    /\ capture_pc = "holding"
    /\ \E n \in 1..Max(1, MaxSamples - mic_appended - sys_appended) :
          /\ system_audio_buffer' = system_audio_buffer \o Block(sys_appended + 1, n)
          /\ sys_appended' = sys_appended + n
    /\ system_buffer_lock' = Free
    /\ capture_pc' = "idle"
    /\ UNCHANGED <<rec_vars, audio_buffer, capture_frame, calls,
                   mic_appended, mic_drained, mic_cleared, sys_drained>>
    /\ UNCHANGED <<fn_vars, db_vars, batch_vars, mark_vars, model_vars, audio_buffer_lock, callback_pc>>

(* ------------------ specification of the buffer mutexes ---------------- *)
\* one live session that is not stopped, with recordings started and stopped
LockNext ==
    \/ StartAccepted
    \/ start_dual_recording
    \/ stop_dual_recording
    \/ process_audio_data_enter
    \/ process_audio_data_lock
    \/ process_audio_data_extend
    \/ \E k \in Loops :
          \/ SpawnLoop(k)
          \/ Tick(k)
          \/ CheckRecording(k)
          \/ lock_audio_buffer(k)
          \/ take_audio_buffer_locked(k)
          \/ lock_system_audio_buffer(k)
          \/ take_system_audio_samples_locked(k)
          \/ store_reference_samples(k)
          \/ LoadConfig(k)
          \/ get_reference_samples(k)
          \/ apply_aec(k)
          \/ ReadOffset(k)
          \/ Recognise(k)
          \/ LogError(k)
          \/ Commit(k)
          \/ Emit(k)
          \/ StoreStopped(k)
    \/ \E r \in Recs :
          \/ RecordingFailsEarly(r)
          \/ StoreFormat(r)
          \/ lock_for_clear(r)
          \/ ClearBufferLocked(r)
          \/ EndRecording(r)
          \/ process_audio_enter(r)
          \/ process_audio_lock(r)
          \/ process_audio_extend(r)

LockSpec == Init /\ [][LockNext]_vars

(* --------------------------- the AEC engine ---------------------------- *)
\* audio/aec.rs. A sample value v stands for the f32 v / 1024, so that the
\* samples, their products and the sums of a few of them are exact in f32.
\* A filter coefficient is kept as the list of the updates added to 0.0.

\* longest mic block and longest reference block of a call, in samples
MaxBlock == 3
\* calls made on the processor after it was built
MaxAecCalls == 2
\* base_step_size 0.15 and the step of a double-talk block, in thousandths
base_step_size == 150
slow_step_size == base_step_size \div 10

\* the values of a mic sample and of a reference sample
MicValues == {0, 2}
ReferenceValues == {0, 1}
MicBlocks == SeqsUpTo(MicValues, MaxBlock)
ReferenceBlocks == SeqsUpTo(ReferenceValues, MaxBlock)

\* the distance of two numbers
Distance(a, b) == IF a > b THEN a - b ELSE b - a
\* usize::saturating_sub
saturating_sub(a, b) == IF a > b THEN a - b ELSE 0
\* slice::rotate_left(mid), which panics unless mid <= len
rotate_left(s, mid) == SubSeq(s, mid + 1, Len(s)) \o SubSeq(s, 1, mid)
\* vec![0.0; n]
Zeros(n) == [i \in 1..n |-> 0]

RECURSIVE SumOf(_)
\* Iterator::sum
SumOf(s) == IF Len(s) = 0 THEN 0 ELSE s[1] + SumOf(Tail(s))

\* the correlation of the inner loop of estimate_delay (aec.rs 38-45)
Correlation(mic, ref, delay) ==
    LET samples_to_check == Min(Len(mic), saturating_sub(Len(ref), delay))
    IN SumOf([i \in 1..samples_to_check |->
                IF delay + i - 1 < Len(ref) THEN mic[i] * ref[delay + i] ELSE 0])

RECURSIVE DelayFrom(_, _, _, _, _)
\* the outer loop of estimate_delay from `delay` on; best is the pair of
\* best_delay and best_correlation, f32::MIN being below every sum
DelayFrom(mic, ref, search_range, delay, best) ==
    IF delay > search_range THEN best.delay
    ELSE LET correlation == Correlation(mic, ref, delay)
         IN IF best.min \/ correlation > best.correlation
            THEN DelayFrom(mic, ref, search_range, delay + 1,
                           [min |-> FALSE, delay |-> delay, correlation |-> correlation])
            ELSE DelayFrom(mic, ref, search_range, delay + 1, best)

\* the search whose range leaves out its last delay
estimate_delay_exclusive(mic, ref, max_delay_samples) ==
    IF Len(mic) = 0 \/ Len(ref) = 0 THEN 0
    ELSE LET search_range == Min(max_delay_samples, saturating_sub(Len(ref), Len(mic)))
         IN DelayFrom(mic, ref, search_range - 1, 0,
                      [min |-> TRUE, delay |-> 0, correlation |-> 0])

estimate_delay(mic, ref, max_delay_samples) ==
    IF Len(mic) = 0 \/ Len(ref) = 0 THEN 0
    ELSE LET search_range == Min(max_delay_samples, saturating_sub(Len(ref), Len(mic)))
         IN DelayFrom(mic, ref, search_range, 0,
                      [min |-> TRUE, delay |-> 0, correlation |-> 0])

\* the sum of the squares of a block
SquareSum(block) == SumOf([i \in 1..Len(block) |-> block[i] * block[i]])

\* the test on the sums of the squares in place of their means
is_double_talk_by_sums(mic, ref) ==
    IF Len(mic) = 0 \/ Len(ref) = 0 THEN FALSE
    ELSE /\ SquareSum(mic) > 3 * SquareSum(ref)
         /\ SquareSum(mic) * 1000000 > 1048576 * Len(mic)

\* mic_energy > ref_energy * 3.0 && mic_energy > 1e-6, the energies being the
\* square sums over the lengths, in units of 1 / 1024^2
is_double_talk(mic, ref) ==
    IF Len(mic) = 0 \/ Len(ref) = 0 THEN FALSE
    ELSE /\ SquareSum(mic) * Len(ref) > 3 * SquareSum(ref) * Len(mic)
         /\ SquareSum(mic) * 1000000 > 1048576 * Len(mic)

\* sample_rate * max_delay_ms in u32 (aec.rs 95), computed by 16-bit halves:
\* whether the product passes 2^32 - 1 and its low 32 bits
Product32(a, b) ==
    LET mid == (a \div 65536) * (b % 65536) + (a % 65536) * (b \div 65536)
        low == (a % 65536) * (b % 65536)
        carried == mid + (low \div 65536)
    IN [overflow |-> (a \div 65536) * (b \div 65536) > 0 \/ carried >= 65536,
        value |-> (carried % 65536) * 65536 + (low % 65536)]

\* the processor AecProcessor::new returns for a filter length
Built(filter_length) ==
    [some |-> TRUE, panicked |-> FALSE,
     filter |-> [j \in 1..filter_length |-> <<>>],
     reference_buffer |-> Zeros(filter_length * 2),
     filter_length |-> filter_length,
     estimated_delay |-> 0,
     frame_count |-> 0]
\* a panic while the mutex of the global processor is held
Panicked == [some |-> FALSE, panicked |-> TRUE]

\* AecProcessor::new: the multiplication panics on overflow in a build with
\* overflow checks and wraps in a build without
NewOutcomes(rate, max_delay_ms) ==
    LET product == Product32(rate, max_delay_ms)
    IN IF product.overflow
       THEN {Panicked, Built(product.value \div 1000)}
       ELSE {Built(product.value \div 1000)}

\* add_reference without the per-sample shifts of process
add_reference(p, samples) ==
    LET shift == Min(Len(samples), Len(p.reference_buffer))
        rotated == rotate_left(p.reference_buffer, shift)
        start == Len(p.reference_buffer) - shift
        copy_len == Min(shift, Len(samples))
    IN [p EXCEPT !.reference_buffer =
            SubSeq(rotated, 1, start)
            \o SubSeq(samples, Len(samples) - copy_len + 1, Len(samples))]

\* the window of the reference buffer a sample is filtered against: the
\* buffer values at ref_start + j for the j inside the buffer (aec.rs 154-169)
Window(p) ==
    LET ref_start == saturating_sub(saturating_sub(Len(p.reference_buffer),
                                                   p.filter_length),
                                    p.estimated_delay)
    IN [j \in 1..p.filter_length |->
            IF ref_start + j - 1 < Len(p.reference_buffer)
            THEN [inside |-> TRUE, val |-> p.reference_buffer[ref_start + j]]
            ELSE [inside |-> FALSE, val |-> 0]]

\* the power of the window, for the normalisation (aec.rs 177-187)
WindowPower(window) ==
    SumOf([j \in 1..Len(window) |-> window[j].val * window[j].val])

\* the NLMS update of one sample (aec.rs 193-198): every coefficient whose
\* reference index is inside the buffer gets one more term
Updated(filter, window, step_size, mic_sample) ==
    [j \in 1..Len(filter) |->
        IF window[j].inside
        THEN Append(filter[j], [step_size |-> step_size, mic |-> mic_sample,
                                x |-> window[j].val])
        ELSE filter[j]]

RECURSIVE ProcessFrom(_, _, _, _, _, _)
\* the for loop of process from its i-th iteration on (i counted from 0)
ProcessFrom(p, mic_block, reference_samples, double_talk, i, output) ==
    IF i >= Len(mic_block)
    THEN [proc |-> p, output |-> output, panicked |-> FALSE,
          double_talk |-> double_talk]
    ELSE LET mic_sample == mic_block[i + 1]
             window == Window(p)
             step_size == IF double_talk THEN slow_step_size ELSE base_step_size
             error == [mic |-> mic_sample, filter |-> p.filter, window |-> window]
             power == WindowPower(window)
             \* power > epsilon: epsilon is 1e-8, one unit of power 1 / 1024^2
             adapted == IF power > 0 /\ ~double_talk
                        THEN [p EXCEPT !.filter = Updated(p.filter, window, step_size,
                                                          mic_sample)]
                        ELSE p
         IN IF i < Len(mic_block) - 1 /\ i < Len(reference_samples)
            THEN IF Len(p.reference_buffer) = 0
                 THEN [proc |-> Panicked, output |-> output, panicked |-> TRUE,
                       double_talk |-> double_talk]
                 ELSE LET rotated == rotate_left(adapted.reference_buffer, 1)
                          last_idx == Len(rotated)
                          shifted == [adapted EXCEPT !.reference_buffer =
                                        [rotated EXCEPT ![last_idx] =
                                            reference_samples[i + 1]]]
                      IN ProcessFrom(shifted, mic_block, reference_samples,
                                     double_talk, i + 1, Append(output, error))
            ELSE ProcessFrom(adapted, mic_block, reference_samples,
                             double_talk, i + 1, Append(output, error))

\* process with one sample fewer in its output
process_drops_last(p, mic_block, reference_samples) ==
    LET q == add_reference(p, reference_samples)
        r == ProcessFrom(q, mic_block, reference_samples,
                         is_double_talk(mic_block, reference_samples), 0, <<>>)
    IN IF Len(mic_block) <= Len(reference_samples) \/ r.panicked THEN r
       ELSE [r EXCEPT !.output = SubSeq(r.output, 1, Len(r.output) - 1)]

\* AecProcessor::process
process(p, mic_block, reference_samples) ==
    IF Len(mic_block) = 0
    THEN [proc |-> p, output |-> <<>>, panicked |-> FALSE, double_talk |-> FALSE]
    ELSE LET added == add_reference(p, reference_samples)
             counted == [added EXCEPT !.frame_count = @ + 1]
             delayed == IF counted.frame_count % 10 = 1
                        THEN [counted EXCEPT !.estimated_delay =
                                estimate_delay(mic_block, counted.reference_buffer,
                                               counted.filter_length)]
                        ELSE counted
         IN ProcessFrom(delayed, mic_block, reference_samples,
                        is_double_talk(mic_block, reference_samples), 0, <<>>)

\* the constructions: filter lengths 0, 1 and 2 and a product of 2^32
Constructions == {<<1000, 0>>, <<1000, 1>>, <<1000, 2>>, <<65536, 65536>>}

\* init_aec: *processor = Some(AecProcessor::new(..)), the arguments of new
\* ranging over the constructions
init_aec ==
    /\ ~processor.some
    /\ ~processor.panicked
    /\ aec_calls = 0
    /\ \E c \in Constructions : processor' \in NewOutcomes(c[1], c[2])
    /\ aec_ret' = [op |-> "new"]
    /\ UNCHANGED <<supplied, aec_calls, aec_enabled, aec_frame>>

\* proc.add_reference(samples) on the built processor
CallAddReference ==
    /\ processor.some
    /\ aec_calls < MaxAecCalls
    /\ \E samples \in ReferenceBlocks :
        /\ processor' = add_reference(processor, samples)
        /\ supplied' = supplied \o samples
        /\ aec_ret' = [op |-> "add_reference", samples |-> samples]
    /\ aec_calls' = aec_calls + 1
    /\ UNCHANGED <<aec_enabled, aec_frame>>

\* apply_aec(mic_block, reference_samples): process on the processor if
\* there is one, the mic block itself if not
CallApplyAec ==
    /\ ~processor.panicked
    /\ aec_calls < MaxAecCalls
    /\ \E mic \in MicBlocks, ref \in ReferenceBlocks :
        IF processor.some
        THEN LET r == process(processor, mic, ref)
             IN /\ processor' = r.proc
                /\ supplied' = IF Len(mic) = 0 THEN supplied ELSE supplied \o ref
                /\ aec_ret' = [op |-> "process", mic |-> mic, reference |-> ref,
                               before |-> processor, output |-> r.output,
                               panicked |-> r.panicked, double_talk |-> r.double_talk]
        ELSE /\ aec_ret' = [op |-> "apply_aec", mic |-> mic, reference |-> ref,
                            output |-> mic, panicked |-> FALSE]
             /\ UNCHANGED <<processor, supplied>>
    /\ aec_calls' = aec_calls + 1
    /\ UNCHANGED <<aec_enabled, aec_frame>>

(* ------------------- specification of the AEC engine ------------------- *)
AecNext ==
    \/ init_aec
    \/ CallAddReference
    \/ CallApplyAec

AecSpec == Init /\ [][AecNext]_vars

(* ------------------------- the AEC enable flag ------------------------- *)
\* set_aec_enabled(enabled): AEC_ENABLED.store(enabled)
set_aec_enabled ==
    /\ \E enabled \in BOOLEAN :
        /\ aec_enabled' = enabled
        /\ aec_ret' = [op |-> "set_aec_enabled", enabled |-> enabled]
    /\ UNCHANGED <<processor, supplied, aec_calls, aec_frame>>

\* is_aec_enabled(): AEC_ENABLED.load()
is_aec_enabled ==
    /\ aec_ret' = [op |-> "is_aec_enabled", value |-> aec_enabled]
    /\ UNCHANGED <<processor, supplied, aec_calls, aec_enabled, aec_frame>>

\* the AEC stage of a tick on a non-empty mic block (live.rs 197-203):
\* apply_aec on the global processor when the reference slice is not empty,
\* the mic block itself when it is.  The call is recorded with the value
\* AEC_ENABLED has when it is made.
cleaned_mic ==
    /\ ~processor.panicked
    /\ aec_calls < MaxAecCalls
    /\ \E mic_16k \in MicBlocks \ {<<>>}, ref \in ReferenceBlocks :
        IF ref # <<>> /\ processor.some
        THEN LET r == process(processor, mic_16k, ref)
             IN /\ processor' = r.proc
                /\ supplied' = supplied \o ref
                /\ aec_ret' = [op |-> "tick", mic |-> mic_16k, reference |-> ref,
                               processed |-> TRUE, output |-> r.output,
                               panicked |-> r.panicked, enabled |-> aec_enabled]
        ELSE /\ aec_ret' = [op |-> "tick", mic |-> mic_16k, reference |-> ref,
                            processed |-> FALSE, output |-> mic_16k,
                            panicked |-> FALSE, enabled |-> aec_enabled]
             /\ UNCHANGED <<processor, supplied>>
    /\ aec_calls' = aec_calls + 1
    /\ UNCHANGED <<aec_enabled, aec_frame>>

FlagNext ==
    \/ init_aec
    \/ set_aec_enabled
    \/ is_aec_enabled
    \/ cleaned_mic

FlagSpec == Init /\ [][FlagNext]_vars

(* ------------------- delay, double-talk and resampling ----------------- *)
\* the length of a reference signal handed to estimate_delay
MaxSignal == 12
\* the longest block handed to is_double_talk and to resample
MaxLen == 3
\* abs() < 10 of test_delay_estimation
Tolerance == 10

\* reference signals: silence, a click at the end, a click at the start, a
\* rising ramp, a constant and an alternation
Signals ==
    {Zeros(MaxSignal),
     [i \in 1..MaxSignal |-> IF i = MaxSignal THEN 1 ELSE 0],
     [i \in 1..MaxSignal |-> IF i = 1 THEN 1 ELSE 0],
     [i \in 1..MaxSignal |-> i],
     [i \in 1..MaxSignal |-> 1],
     [i \in 1..MaxSignal |-> i % 2]}

\* the calls of estimate_delay on a reference signal and a mic block that is
\* the signal from its sample c[2] on, with a search range above c[2]
DelayCalls ==
    {[op |-> "estimate_delay", reference |-> c[1], delay |-> c[2],
      mic |-> SubSeq(c[1], c[2] + 1, c[2] + c[3]), max_delay_samples |-> c[4]] :
        c \in {c \in Signals \X (0..(MaxSignal - 1)) \X (1..MaxSignal) \X (1..MaxSignal) :
                  c[2] + c[3] <= MaxSignal /\ c[4] > c[2]}}

CallEstimateDelay ==
    /\ call.op = "estimate_delay"
    /\ ~ret.done
    /\ ret' = [done |-> TRUE,
               value |-> estimate_delay(call.mic, call.reference,
                                        call.max_delay_samples)]
    /\ UNCHANGED <<call, fn_frame>>

\* the blocks handed to is_double_talk: silence, samples below the energy
\* floor and samples above it
TalkValues == {0, 1, 3}
TalkBlocks == SeqsUpTo(TalkValues, MaxLen)
TalkCalls ==
    {[op |-> "is_double_talk", mic |-> mic, reference |-> ref] :
        mic \in TalkBlocks, ref \in TalkBlocks}

CallIsDoubleTalk ==
    /\ call.op = "is_double_talk"
    /\ ~ret.done
    /\ ret' = [done |-> TRUE, value |-> is_double_talk(call.mic, call.reference)]
    /\ UNCHANGED <<call, fn_frame>>

\* resample of converter.rs with the two rates exchanged in the ratio
resample_file_inverted(samples, from_rate, to_rate) ==
    IF from_rate = to_rate THEN samples
    ELSE [k \in 1..((Len(samples) * from_rate + to_rate - 1) \div to_rate) |-> 0]

\* resample of converter.rs (181-209): ratio = from/to, src_idx = i * ratio
resample_file(samples, from_rate, to_rate) ==
    IF from_rate = to_rate THEN samples
    ELSE LET output_len == (Len(samples) * to_rate + from_rate - 1) \div from_rate
             idx_floor(i) == (i * from_rate) \div to_rate
             idx_ceil(i) == Min(idx_floor(i) + 1, Len(samples) - 1)
         IN [k \in 1..output_len |->
                IF idx_floor(k - 1) < Len(samples)
                THEN Blend(samples[idx_floor(k - 1) + 1], samples[idx_ceil(k - 1) + 1],
                           ((k - 1) * from_rate) % to_rate, to_rate)
                ELSE 0]

\* the sample rates of a resampling
Rates == {1, 2, 3, 4}
ResampleCalls ==
    {[op |-> f, samples |-> FirstSamples(n), from_rate |-> a, to_rate |-> b] :
        f \in {"live::resample", "converter::resample"}, n \in 0..(MaxLen + 1),
        a \in Rates, b \in Rates}

CallResample ==
    /\ call.op = "live::resample"
    /\ ~ret.done
    /\ ret' = [done |-> TRUE,
               value |-> resample(call.samples, call.from_rate, call.to_rate)]
    /\ UNCHANGED <<call, fn_frame>>

CallResampleFile ==
    /\ call.op = "converter::resample"
    /\ ~ret.done
    /\ ret' = [done |-> TRUE,
               value |-> resample_file(call.samples, call.from_rate, call.to_rate)]
    /\ UNCHANGED <<call, fn_frame>>

(* -------------- specification of the numeric functions ----------------- *)
NumCalls == DelayCalls \cup TalkCalls \cup ResampleCalls

NumInit ==
    /\ LiveInit
    /\ DbInit
    /\ BatchInit
    /\ LockInit
    /\ AecIdle
    /\ call \in NumCalls
    /\ ret = NoRet

NumNext ==
    \/ CallEstimateDelay
    \/ CallIsDoubleTalk
    \/ CallResample
    \/ CallResampleFile

NumSpec == NumInit /\ [][NumNext]_vars

(* -------------------- similarity-based deduplication ------------------- *)
\* The deduplicator of the bulk reconciliation. A segment is a start time in
\* hundredths of a second and a text, a text a sequence of words.

\* longest text of the exhaustive part of the inputs, in words
MaxDedupWords == 2

\* the texts: every short one, and longer ones whose word sets overlap by
\* 5 of 6 and by 4 of 5 without one text containing the other
DedupTexts ==
    SeqsUpTo(Vocabulary, MaxDedupWords) \cup
    {<<"a", "b", "c", "d", "e", "f">>, <<"e", "d", "c", "b", "a">>,
     <<"d", "c", "b", "a">>}
\* start times 0 s, 3 s and 4 s
DedupStarts == {0, 300, 400}
DedupSegments == [start_time : DedupStarts, text : DedupTexts]

\* the normalised text
Normalized(text) == Lowered(text)
\* the word set of a text
WordSet(words) == {words[i] : i \in 1..Len(words)}
\* one text occurs inside the other
ContainsText(outer, inner) ==
    \E i \in 0..(Len(outer) - Len(inner)) :
        SubSeq(outer, i + 1, i + Len(inner)) = inner
\* word-level Jaccard similarity above 0.8
JaccardAbove(x, y) ==
    /\ WordSet(x) \cup WordSet(y) # {}
    /\ 5 * Cardinality(WordSet(x) \cap WordSet(y))
        > 4 * Cardinality(WordSet(x) \cup WordSet(y))

\* the test that looks for the candidate inside the kept segment only
is_duplicate_one_way(kept, candidate) ==
    /\ Distance(kept.start_time, candidate.start_time) <= 300
    /\ \/ Normalized(kept.text) = Normalized(candidate.text)
       \/ ContainsText(Normalized(kept.text), Normalized(candidate.text))

\* the duplicate test of a candidate against a kept segment
is_duplicate(kept, candidate) ==
    /\ Distance(kept.start_time, candidate.start_time) <= 300
    /\ \/ Normalized(kept.text) = Normalized(candidate.text)
       \/ ContainsText(Normalized(kept.text), Normalized(candidate.text))
       \/ ContainsText(Normalized(candidate.text), Normalized(kept.text))
       \/ JaccardAbove(Normalized(kept.text), Normalized(candidate.text))

RECURSIVE KeepFrom(_, _, _)
\* the pass over the candidates from the i-th on: a candidate that is a
\* duplicate of a kept segment is dropped
KeepFrom(candidates, i, kept) ==
    IF i > Len(candidates) THEN kept
    ELSE IF \E k \in 1..Len(kept) : is_duplicate(kept[k], candidates[i])
    THEN KeepFrom(candidates, i + 1, kept)
    ELSE KeepFrom(candidates, i + 1, Append(kept, candidates[i]))

\* the survivors in processing order
deduplicate(candidates) == KeepFrom(candidates, 1, <<>>)

DedupCalls == {[op |-> "deduplicate", a |-> a, b |-> b] : a, b \in DedupSegments}

\* the deduplicator run on [A, B] and on [B, A]
CallDeduplicate ==
    /\ call.op = "deduplicate"
    /\ ~ret.done
    /\ ret' = [done |-> TRUE,
               ab |-> deduplicate(<<call.a, call.b>>),
               ba |-> deduplicate(<<call.b, call.a>>)]
    /\ UNCHANGED <<call, fn_frame>>

(* ----------------- specification of the deduplicator ------------------- *)
DedupInit ==
    /\ LiveInit
    /\ DbInit
    /\ BatchInit
    /\ LockInit
    /\ AecIdle
    /\ call \in DedupCalls
    /\ ret = NoRet

DedupNext == CallDeduplicate

DedupSpec == DedupInit /\ [][DedupNext]_vars

(* ----------------------------- properties ------------------------------ *)
\* the tick loops that have passed both checks of their current tick
Draining == {l \in Loops : pc[l] \in DrainPcs}

\* C1: at any time at most one tick loop is active: there is never a state
\* in which two spawned tick loops have both passed the running checks and
\* go on to drain the sample buffers.
C1_AtMostOneLoopDrains == Cardinality(Draining) <= 1

\* C2: a start call that finds is_running set returns AlreadyTranscribing and
\* changes nothing: the two offsets, the segment list, the AEC processor, the
\* reference window and is_running keep their values and no loop is spawned.
C2_RejectedStartChangesNothing ==
    [][start_err' # start_err =>
          /\ is_running
          /\ start_err' = start_err + 1
          /\ UNCHANGED <<is_running, mic_time_offset, system_time_offset,
                         segments, aec_processor, system_audio_reference,
                         pc, nstarts>>]_vars
\* a start was rejected in a session that has advanced the mic offset and
\* accumulated a segment, with its loop at work
C2_RejectedWhileSessionHasState ==
    /\ start_err > 0
    /\ is_running
    /\ mic_time_offset > 0
    /\ segments # <<>>
    /\ \E l \in Loops : pc[l] \in LoopPcs

\* C3: once start has returned Ok, is_running stays true until stop is
\* called or the session's own loop leaves on is_recording = false; nothing
\* else, in particular no exit of an earlier loop, clears it.
C3_OnlyStopOrOwnLoopClearsRunning ==
    [][(is_running /\ ~is_running' /\ nstarts > 0 /\ pc[nstarts] # "spawn") =>
          \/ stop_pc = "idle" /\ stop_pc' = "clone"
          \/ pc[nstarts] = "store_stopped" /\ pc'[nstarts] = "exited"]_vars

\* C4: a stop call that found no session running and no loop at work, and
\* returns with none running and no loop at work, returns an empty segment
\* list and an empty full_text, and leaves the live state unchanged.
C4_StopWhenNotRunningReturnsEmpty ==
    [][(stop_pc = "clone" /\ stop_pc' = "idle" /\ ~stop_was_running
            /\ ~is_running /\ NoSessionActivity) =>
          /\ stop_result'.segments = <<>>
          /\ stop_result'.full_text = ""
          /\ UNCHANGED live_vars]_vars

\* C5: a loop that was active when stop was called leaves at its next
\* top-of-loop flag check, whatever commands were issued in between.
C5_StoppedLoopExitsAtNextCheck ==
    [][\A l \in Loops :
          (stop_seen[l] /\ pc[l] = "tick" /\ pc'[l] # "tick") =>
              pc'[l] = "store_stopped"]_vars

\* C6: within a session (no successful start in the step) neither offset
\* ever decreases.
C6_OffsetsNeverDecrease ==
    [][nstarts' = nstarts =>
          /\ mic_time_offset' >= mic_time_offset
          /\ system_time_offset' >= system_time_offset]_vars

\* the segments are in time order
TimeOrdered(segs) ==
    \A k \in 1..(Len(segs) - 1) : segs[k + 1].start_time >= segs[k].end_time

\* C7: per stream, every emitted segment starts no earlier than the end of
\* the segment of the same stream emitted before it in the same session
\* (both are emitted, by ticks that began, after the same accepted start
\* and before the next).
C7_EmittedSegmentsOrdered ==
    /\ \A i \in DOMAIN events : TimeOrdered(events[i].segments)
    /\ \A i, j \in DOMAIN events :
          (i < j /\ events[i].audio_source = events[j].audio_source
                 /\ events[i].session = events[j].session
                 /\ events[i].tick_session = events[i].session
                 /\ events[j].tick_session = events[j].session) =>
              Head(events[j].segments).start_time
                  >= Last(events[i].segments).end_time

\* C8: when start returns Ok both offsets are 0, the segment list and the
\* reference window are empty and the AEC processor is in its initial state.
C8_StateIsResetWhenStartReturns ==
    [][\A k \in Loops :
          (pc[k] = "spawn" /\ pc'[k] = "tick") =>
              /\ mic_time_offset = 0
              /\ system_time_offset = 0
              /\ segments = <<>>
              /\ system_audio_reference = <<>>
              /\ aec_processor = NewProcessor]_vars

Failures == {"JoinError", "TranscriptionFailed"}

\* C9: a failed recognition leaves the offsets, the database, the segment
\* list and the events as they are and reaches no caller of start or stop;
\* the loop logs it and goes on with the other stream of the tick, or with
\* the next tick; no stream is recognised twice in a tick.
C9_FailureIsAbsorbed ==
    [][\A l \in Loops :
          /\ (pc[l] = "recognise" /\ result'[l].kind \in Failures) =>
                /\ pc'[l] = "log_error"
                /\ audio_sources'[l] = audio_sources[l]
                /\ UNCHANGED <<live_vars, sink_vars, start_err, stop_result>>
          /\ (pc[l] = "log_error" /\ pc'[l] # "log_error") =>
                /\ audio_sources'[l] = Tail(audio_sources[l])
                /\ pc'[l] = IF Tail(audio_sources[l]) = <<>>
                            THEN "tick" ELSE "read_offset"
                /\ UNCHANGED <<live_vars, sink_vars, start_err, stop_result>>
          /\ \A s \in Sources : tick_calls'[l].recognised[s] <= 1]_vars
\* the mic recognition of a tick failed and the system stream of the same
\* tick has been recognised and committed; the offset of the mic is still 0
C9_OtherStreamCommittedAfterFailure ==
    \E l \in Loops :
        /\ tick_calls[l].failed["Mic"] = 1
        /\ pc[l] = "emit"
        /\ CurrentSource(l) = "System"
        /\ db[l] # <<>>
        /\ segments # <<>>
        /\ mic_time_offset = 0
        /\ is_running

\* the samples of seq that are not in the set gone
Without(seq, gone) == SelectSeq(seq, LAMBDA s : s \notin gone)

\* C10 as stated: the blocks drained so far followed by the buffer's content
\* are the samples the capture side appended, for both buffers.
C10_DrainedAndBufferedIsAppended ==
    /\ mic_drained \o audio_buffer = Block(1, mic_appended)
    /\ sys_drained \o system_audio_buffer = Block(1, sys_appended)

\* C10, amended: a tick takes each buffer at most once, a take hands the
\* whole content to the tick and leaves the buffer empty, and the blocks
\* drained so far followed by the buffer's content are the samples appended,
\* in order and once each, less the mic samples run_recording discarded when
\* a recording started.
C10_DrainedAndBufferedIsAppendedLessCleared ==
    /\ [](/\ mic_drained \o audio_buffer
                = Without(Block(1, mic_appended), mic_cleared)
          /\ sys_drained \o system_audio_buffer = Block(1, sys_appended)
          /\ \A l \in Loops : \A s \in Sources : tick_calls[l].took[s] <= 1)
    /\ [][\A l \in Loops :
             /\ (pc[l] = "take_mic" /\ pc'[l] # "take_mic") =>
                   /\ mic_samples'[l] = audio_buffer
                   /\ audio_buffer' = <<>>
                   /\ pc'[l] = "take_system"
             /\ (pc[l] = "take_system" /\ pc'[l] # "take_system") =>
                   /\ system_samples'[l] = system_audio_buffer
                   /\ system_audio_buffer' = <<>>]_vars
\* a recording start discarded a mic sample and a tick of a later session
\* has drained another
C10_ClearedAndDrained ==
    /\ mic_cleared # {}
    /\ mic_drained # <<>>
    /\ \E l \in Loops : pc[l] \in DrainPcs

\* the call of is_echo_of_system that has returned
EchoReturned == call.op = "is_echo_of_system" /\ ret.done
\* the system segments of the call that overlap the mic segment by at least
\* one second
Overlapping ==
    {i \in 1..Len(call.system_segments) :
        Overlap(call.mic_start, call.mic_end, call.system_segments[i]) >= 100}
\* the lower-cased first five words of a text
FirstFive(text) == Take(Lowered(text), 5)
\* some overlapping system segment opens with the same five lower-cased
\* words as the mic segment
SameOpening ==
    \E i \in Overlapping :
        FirstFive(call.mic_text) = FirstFive(call.system_segments[i][3])

\* C13 as stated: a mic segment of at least one word whose lower-cased first
\* five words are identical to those of a system segment overlapping it by at
\* least one second is an echo, whatever its word count.
C13_SameOpeningIsEcho ==
    EchoReturned /\ Len(call.mic_text) >= 1 /\ SameOpening => ret.value

\* C13 amended: a mic segment of at least two words whose lower-cased first
\* five words are identical to those of a system segment overlapping it by at
\* least one second is an echo.
C13_SameOpeningOfTwoWordsIsEcho ==
    EchoReturned /\ Len(call.mic_text) >= 2 /\ SameOpening => ret.value

\* a two-word mic segment with the same opening as an overlapping system
\* segment was classified as an echo
C13_TwoWordEcho ==
    EchoReturned /\ Len(call.mic_text) = 2 /\ SameOpening /\ ret.value

\* C14: is_echo_of_system returns true exactly when some system segment
\* overlaps the mic segment by at least one second and the number of the mic
\* segment's lower-cased first five words found among that segment's
\* lower-cased first five words is at least 3, or at least 2 while the mic
\* segment has at most three words; so it returns false for an empty system
\* list, a mic segment without words, and no sufficient overlap.
C14_EchoRule ==
    EchoReturned =>
        (ret.value <=>
            \E i \in Overlapping :
                LET n == Cardinality(
                        {j \in 1..Len(FirstFive(call.mic_text)) :
                            \E k \in 1..Len(FirstFive(call.system_segments[i][3])) :
                                FirstFive(call.system_segments[i][3])[k]
                                    = FirstFive(call.mic_text)[j]})
                IN n >= 3 \/ (n >= 2 /\ Len(call.mic_text) <= 3))

\* a call with two overlapping system segments of which only the second
\* satisfies the rule returned true
C14_SecondSegmentDecides ==
    /\ EchoReturned
    /\ ret.value
    /\ Len(call.system_segments) = 2
    /\ Overlapping = {1, 2}
    /\ ~is_echo_of_system(call.mic_text, call.mic_start, call.mic_end,
                          SubSeq(call.system_segments, 1, 1))

\* the rows of the system stream among rows, as is_echo_of_system takes them
SystemRows(rows) ==
    LET others == SelectSeq(rows, LAMBDA r : r.speaker = "Others")
    IN [i \in 1..Len(others) |->
            <<others[i].start_time, others[i].end_time, Words(others[i].text)>>]

\* C12: no mic segment written by the live loop is one the echo rule
\* classifies as an echo of a system segment; here, of the system segments
\* of its note that were written before it.
C12_NoEchoCommitted ==
    \A l \in Loops : \A i \in 1..Len(db[l]) :
        db[l][i].speaker = "You" =>
            ~is_echo_of_system(Words(db[l][i].text), db[l][i].start_time,
                               db[l][i].end_time,
                               SystemRows(SubSeq(db[l], 1, i - 1)))

\* C16: in a tick with a non-empty mic block either the reference slice
\* handed to the AEC engine has exactly as many samples as the 16 kHz mono mic
\* block, or no reference is cached and the mic block is passed on unmodified.
C16_ReferenceAsLongAsMicBlock ==
    call.op = "aec_stage" /\ ret.done =>
        \/ ret.value.applied /\ Len(ret.value.reference) = Len(call.mic_16k)
        \/ ~ret.value.applied /\ call.buffer = <<>>

\* s is the tail of t
IsSuffix(s, t) ==
    /\ Len(s) <= Len(t)
    /\ s = SubSeq(t, Len(t) - Len(s) + 1, Len(t))
\* no loop is between the checks and the end of a tick
BetweenTicks == Draining = {}

\* C17: after every tick the cached reference window is the last
\* min(80000, n) samples, in capture order, of the n system samples drained
\* since the session started; hence it is a tail of the system samples
\* drained so far and never longer than 80000 samples.
C17_WindowIsTailOfDrained ==
    BetweenTicks =>
        /\ IsSuffix(system_audio_reference, sys_drained)
        /\ Len(system_audio_reference) <= MAX_SAMPLES

\* loop l writes its valid segments and extends the list in this step
CommitStep(l) == pc[l] = "commit" /\ pc'[l] = "emit"
\* loop l emits its valid segments in this step
EmitStep(l) == pc[l] = "emit" /\ pc'[l] # "emit"
\* the rows loop l adds to its note in this step
NewRows(l) == SubSeq(db'[l], Len(db[l]) + 1, Len(db'[l]))
\* the label the claim gives to the stream of the current recognition
Label(l) ==
    CASE CurrentSource(l) = "Mic" -> "You"
      [] CurrentSource(l) = "System" -> "Others"

\* C18 as stated, for the database: every segment that survives the filter
\* in a tick is written to the database in that tick.
C18_EveryValidSegmentWritten ==
    [][\A l \in Loops :
          CommitStep(l) => Len(NewRows(l)) = Len(valid_segments[l])]_vars

\* C18 amended: the rows a tick writes carry the label "You" for the mic
\* stream and "Others" for the system stream and are rows of segments that
\* survived the filter, at most one per segment (an insert may fail and is
\* then skipped); every surviving segment is appended to the accumulated
\* list in the same step and emitted by the same loop in its next step, in
\* one event that holds exactly the surviving segments of the stream just
\* recognised, with that stream as audio_source.
C18_LabelledWrittenAppendedEmitted ==
    [][\A l \in Loops :
          /\ CommitStep(l) =>
                /\ valid_segments[l] # <<>>
                /\ \A i \in 1..Len(valid_segments[l]) :
                       ~should_skip_segment(valid_segments[l][i].text)
                /\ Len(db'[l]) >= Len(db[l])
                /\ SubSeq(db'[l], 1, Len(db[l])) = db[l]
                /\ Len(NewRows(l)) <= Len(valid_segments[l])
                /\ \A i \in 1..Len(NewRows(l)) :
                       /\ NewRows(l)[i].speaker = Label(l)
                       /\ \E j \in 1..Len(valid_segments[l]) :
                              /\ NewRows(l)[i].start_time = valid_segments[l][j].start_time
                              /\ NewRows(l)[i].end_time = valid_segments[l][j].end_time
                              /\ NewRows(l)[i].text = valid_segments[l][j].text
                /\ segments' = segments \o valid_segments[l]
                /\ valid_segments'[l] = valid_segments[l]
                /\ audio_sources'[l] = audio_sources[l]
          /\ EmitStep(l) =>
                /\ Len(events') = Len(events) + 1
                /\ SubSeq(events', 1, Len(events)) = events
                /\ Last(events').segments = valid_segments[l]
                /\ Last(events').audio_source = CurrentSource(l)
                /\ Last(events').meeting_id = l
                /\ ~Last(events').is_final]_vars

\* a loop has written a mic row and a system row to its note and emitted
\* events of both streams
C18_BothStreamsCommitted ==
    \E l \in Loops :
        /\ \E i \in 1..Len(db[l]) : db[l][i].speaker = "You"
        /\ \E i \in 1..Len(db[l]) : db[l][i].speaker = "Others"
        /\ \E i \in 1..Len(events) :
               events[i].meeting_id = l /\ events[i].audio_source = "Mic"
        /\ \E i \in 1..Len(events) :
               events[i].meeting_id = l /\ events[i].audio_source = "System"

\* the stop call reads the list and returns in this step
StopReturnStep == stop_pc = "clone" /\ stop_pc' = "idle"
\* the texts of segs joined by single spaces, built from the last one back
RECURSIVE Joined(_)
Joined(segs) ==
    IF Len(segs) = 0 THEN ""
    ELSE IF Len(segs) = 1 THEN segs[1].text
    ELSE Joined(SubSeq(segs, 1, Len(segs) - 1)) \o " " \o Last(segs).text

\* C19: stop_live_transcription returns the accumulated list exactly as it
\* stands when the call reads it, in append order, with full_text the texts
\* joined by single spaces, and no step of the call alters the list.
C19_StopReturnsTheList ==
    [][/\ StopReturnStep =>
            /\ stop_result'.returned
            /\ stop_result'.segments = segments
            /\ stop_result'.full_text = Joined(segments)
            /\ segments' = segments
       /\ (stop_pc = "idle" /\ stop_pc' = "clone") => segments' = segments]_vars

\* a stop has returned two accumulated segments and their joined text
C19_StopReturnedTwoSegments ==
    /\ stop_result.returned
    /\ Len(stop_result.segments) = 2
    /\ stop_result.segments = segments
    /\ stop_result.full_text = "hello there hello there"

\* C20: get_transcript_segments(note) returns exactly the segments stored
\* for that note at the time of the call, each once, ordered by
\* non-decreasing start_time, whatever the order of the insertions and
\* deletions before it.
C20_QueryReturnsNoteRowsInTimeOrder ==
    fetched.queried =>
        /\ {fetched.segments[i] : i \in 1..Len(fetched.segments)}
               = {r \in transcript_segments : r.note_id = fetched.note_id}
        /\ \A i, j \in 1..Len(fetched.segments) :
               i < j =>
                  /\ fetched.segments[i] # fetched.segments[j]
                  /\ fetched.segments[i].start_time <= fetched.segments[j].start_time

\* a query returned two rows of its note in an order other than that of
\* their insertion, after a deletion, while the other note has a row too
C20_ReorderedAfterDeletion ==
    /\ fetched.queried
    /\ Len(fetched.segments) = 2
    /\ fetched.segments[1].id > fetched.segments[2].id
    /\ \E r \in transcript_segments : r.note_id # fetched.note_id
    /\ Cardinality(transcript_segments) < last_insert_rowid

\* the text holds one of the noise markers, in any case, or is empty after
\* trimming
IsNoise(text) ==
    \/ \E marker \in {"[blank_audio]", "[inaudible]", "[silence]", "[music]",
                      "[applause]", "[laughter]"} :
          Contains(ToLowercase(text), marker)
    \/ Trim(text) = ""

\* C15: no file-transcription command persists a segment whose text holds a
\* noise marker or is empty after trimming.
C15_NoNoiseRow ==
    \A r \in transcript_segments : ~IsNoise(r.text)

\* the mutex is free or held by a drain or an append
DrainOrAppend(lock) == lock.kind \in {"free", "drain", "append"}

\* C11: a capture append is blocked only by a concurrent drain or append on
\* the same buffer: whenever a stream callback or the capture thread waits
\* for the mutex of its buffer, the mutex is free or held by a drain or by
\* an append.
C11_AppendWaitsForDrainOrAppendOnly ==
    /\ \A r \in Recs :
          callback_pc[r] = "lock" => DrainOrAppend(audio_buffer_lock)
    /\ capture_pc = "lock" => DrainOrAppend(system_buffer_lock)

\* no tick loop holds a buffer mutex outside the step that drains the
\* buffer, in particular not while it runs the AEC or waits for a recognition
LoopHoldsLockOnlyToDrain ==
    \A l \in Loops :
        /\ audio_buffer_lock = Holder("drain", l) => pc[l] = "holding_mic"
        /\ system_buffer_lock = Holder("drain", l) => pc[l] = "holding_system"


\* a call of process that returned
ProcessReturned == aec_ret.op = "process" /\ ~aec_ret.panicked

\* C21: process returns exactly as many samples as the mic block has for
\* every reference block (empty, shorter, as long, longer than the mic block
\* or than the reference buffer), a processor with a filter returns from
\* every call, and apply_aec returns as many samples as the mic block has
\* when no processor was ever initialised
C21_OutputAsLongAsMicBlock ==
    /\ aec_ret.op = "process" /\ aec_ret.before.filter_length > 0
        => ~aec_ret.panicked
    /\ ProcessReturned \/ aec_ret.op = "apply_aec"
        => Len(aec_ret.output) = Len(aec_ret.mic)

\* C21 witness: a mic block of three samples was processed with a shorter
\* reference block, after a call whose reference block was longer than the
\* reference buffer
C21_LongAndShortReference ==
    /\ ProcessReturned
    /\ aec_calls = 2
    /\ Len(aec_ret.mic) = 3
    /\ Len(aec_ret.reference) = 1
    /\ Len(supplied) > Len(processor.reference_buffer) + 1
    /\ Len(aec_ret.output) = 3

\* the last n elements of a sequence
LastN(s, n) == SubSeq(s, Len(s) - n + 1, Len(s))

\* C22: after any sequence of add_reference and process calls the filter has
\* the length it was built with, and the reference buffer has its constant
\* length N and holds the last N reference samples supplied, oldest first,
\* each once, behind zeros while fewer than N were supplied
C22_BufferHoldsLastSupplied ==
    processor.some =>
        /\ Len(processor.filter) = processor.filter_length
        /\ Len(processor.reference_buffer) = 2 * processor.filter_length
        /\ processor.reference_buffer =
            LastN(Zeros(Len(processor.reference_buffer)) \o supplied,
                  Len(processor.reference_buffer))

\* C25: when process classifies a block as double-talk and the window of a
\* sample has power above epsilon, the filter is still updated for the block,
\* with a tenth of the base step size
C25_DoubleTalkStillAdapts ==
    /\ ProcessReturned
    /\ aec_ret.double_talk
    /\ \E i \in 1..Len(aec_ret.output) : WindowPower(aec_ret.output[i].window) > 0
    => \E j \in 1..Len(processor.filter) :
        /\ Len(processor.filter[j]) > Len(aec_ret.before.filter[j])
        /\ processor.filter[j][Len(processor.filter[j])].step_size = slow_step_size

\* C26: no construction by AecProcessor::new and no call of process on the
\* processor it built panics, whatever the sample rate, the maximal delay
\* and the two blocks are: no index, range or rotation leaves the reference
\* buffer and the product of the filter length does not overflow
C26_NeverPanics == ~processor.panicked

\* a call of estimate_delay that returned
DelayReturned == call.op = "estimate_delay" /\ ret.done
\* the delays estimate_delay searches for a call
SearchRange == 0..Min(call.max_delay_samples, Len(call.reference) - Len(call.mic))
\* the correlation at the true delay is above the correlation at every
\* searched delay farther from it than the tolerance
PeakAtDelay ==
    \A e \in SearchRange :
        Distance(e, call.delay) > Tolerance =>
            Correlation(call.mic, call.reference, e)
                < Correlation(call.mic, call.reference, call.delay)

TalkReturned == call.op = "is_double_talk" /\ ret.done
\* mean-square energies of the two blocks of the call, compared by cross
\* multiplication: mic energy against `times` the reference energy
MicEnergyAtLeast(times) ==
    SquareSum(call.mic) * Len(call.reference)
        >= times * SquareSum(call.reference) * Len(call.mic)
MicEnergyAbove(times) ==
    SquareSum(call.mic) * Len(call.reference)
        > times * SquareSum(call.reference) * Len(call.mic)
\* mic energy above 1e-6, a sample value being 1 / 1024
AboveFloor == SquareSum(call.mic) * 1000000 > 1048576 * Len(call.mic)
EitherEmpty == Len(call.mic) = 0 \/ Len(call.reference) = 0

\* C24: is_double_talk returns true whenever the mic energy is at least 3
\* times the reference energy and above the floor, and false whenever the mic
\* energy is below the reference energy or either block is empty
C24_TrueAtThreeTimes ==
    TalkReturned =>
        /\ ~EitherEmpty /\ MicEnergyAtLeast(3) /\ AboveFloor => ret.value
        /\ EitherEmpty \/ ~MicEnergyAtLeast(1) => ~ret.value

\* C24, amended: true whenever the mic energy is more than 3 times the
\* reference energy and above the floor, false whenever it is below the
\* reference energy or either block is empty
C24_TrueAboveThreeTimes ==
    TalkReturned =>
        /\ ~EitherEmpty /\ MicEnergyAbove(3) /\ AboveFloor => ret.value
        /\ EitherEmpty \/ ~MicEnergyAtLeast(1) => ~ret.value

\* C24 witness: double-talk detected for a mic block whose square sum is no
\* more than 3 times the square sum of a longer reference block
C24_LouderThanLongerReference ==
    /\ TalkReturned
    /\ ret.value
    /\ Len(call.reference) > Len(call.mic)
    /\ SquareSum(call.mic) <= 3 * SquareSum(call.reference)

\* a call of one of the two resample functions that returned
ResampleReturned == call.op \in {"live::resample", "converter::resample"} /\ ret.done

\* C27: resampling from a rate to the same rate returns the input unchanged,
\* in both implementations
C27_SameRateIsIdentity ==
    ResampleReturned /\ call.from_rate = call.to_rate => ret.value = call.samples

\* C27 witness: four samples went through resample of live.rs at rate 3
C27_FourSamplesAtSameRate ==
    /\ ResampleReturned
    /\ call.op = "live::resample"
    /\ call.from_rate = 3
    /\ call.to_rate = 3
    /\ Len(call.samples) = 4
    /\ ret.value = <<1, 2, 3, 4>>

\* C28: resampling L samples from rate A to rate B returns a buffer whose
\* length is within 1 of L * B / A, nothing for an empty input, and 2
\* samples for 4 samples from rate 2 to rate 1
C28_LengthWithinOne ==
    ResampleReturned =>
        /\ Distance(Len(ret.value) * call.from_rate, Len(call.samples) * call.to_rate)
            <= call.from_rate
        /\ Len(call.samples) = 0 => Len(ret.value) = 0
        /\ Len(call.samples) = 4 /\ call.from_rate = 2 /\ call.to_rate = 1
            => Len(ret.value) = 2

\* C28 witness: resample of converter.rs made 3 samples of 4 from rate 3 to
\* rate 2, where L * B / A is not a whole number
C28_FractionalLength ==
    /\ ResampleReturned
    /\ call.op = "converter::resample"
    /\ Len(call.samples) = 4
    /\ call.from_rate = 3
    /\ call.to_rate = 2
    /\ Len(ret.value) = 3

\* the two segments of the call are near-duplicates: starts within 3 s, and
\* normalised texts equal, one inside the other, or of word-level Jaccard
\* similarity above 0.8
NearDuplicates ==
    /\ Distance(call.a.start_time, call.b.start_time) <= 300
    /\ \/ Normalized(call.a.text) = Normalized(call.b.text)
       \/ ContainsText(Normalized(call.a.text), Normalized(call.b.text))
       \/ ContainsText(Normalized(call.b.text), Normalized(call.a.text))
       \/ JaccardAbove(Normalized(call.a.text), Normalized(call.b.text))

\* C29: for near-duplicates A and B the deduplicator keeps exactly one
\* segment of [A, B] and of [B, A], the first in processing order, and B is a
\* duplicate of A exactly when A is a duplicate of B
C29_FirstOfNearDuplicatesKept ==
    call.op = "deduplicate" /\ ret.done =>
        /\ NearDuplicates => ret.ab = <<call.a>> /\ ret.ba = <<call.b>>
        /\ is_duplicate(call.a, call.b) <=> is_duplicate(call.b, call.a)

\* C29 witness: two different texts, the shorter one inside the longer one
\* and starting later: each run kept the segment it met first
C29_ShorterInsideLonger ==
    /\ call.op = "deduplicate"
    /\ ret.done
    /\ Len(call.a.text) < Len(call.b.text)
    /\ Len(call.a.text) > 0
    /\ call.a.start_time > call.b.start_time
    /\ ret.ab = <<call.a>>
    /\ ret.ba = <<call.b>>

\* the last retranscription that reached its recognitions
Retranscribed ==
    last_results.cmd \in {"retranscribe_audio_segment", "retranscribe_note"}
\* the rows of audio segment 1 with a speaker label
SegmentRows(speaker) ==
    {r \in transcript_segments :
        r.source_type = "segment" /\ r.source_id = 1 /\ r.speaker = speaker}
\* the system segments of the last retranscription that are not noise
SurvivingSystem == FilterValid(last_results.system.segments)
\* the mic segments of the last retranscription that are not noise
ValidMic == FilterValid(last_results.mic.segments)
\* a segment is a row with a speaker label
Persisted(seg, speaker) ==
    \E r \in SegmentRows(speaker) :
        /\ r.start_time = seg.start_time
        /\ r.end_time = seg.end_time
        /\ r.text = seg.text
\* the mic segment is an echo of the surviving system segments
EchoOfSurviving(seg) ==
    is_echo_of_system(Words(seg.text), seg.start_time, seg.end_time,
                      EchoList(SurvivingSystem))
\* the rows of the system stream were written before those of the mic
\* stream, and no row of the mic stream is an echo of the surviving system
\* segments
SystemFirstAndNoEcho ==
    /\ \A o \in SegmentRows("Others"), y \in SegmentRows("You") : o.id < y.id
    /\ \A i \in 1..Len(ValidMic) :
          EchoOfSurviving(ValidMic[i]) => ~Persisted(ValidMic[i], "You")
\* the system recognition failed or there was no system file, and the mic
\* recognition succeeded
OnlyMicRecognised ==
    /\ last_results.system.kind \in {"err", "none"}
    /\ last_results.mic.kind = "ok"

Appending == {r \in Recs : rec_pc[r] = "streaming" /\ is_recording}

\* C31: at any time at most one recording thread of the RecordingState
\* appends to the audio buffer, whatever the interleaving of start_recording
\* and stop_recording
C31_AtMostOneRecordingThread == Cardinality(Appending) <= 1

(* ------------------------- the AEC enable flag ------------------------- *)
\* an update term that is not zero: the error it was computed from is the mic
\* sample itself as long as every earlier term is zero
NonZero(term) == term.x # 0 /\ term.mic # 0

\* an output sample of a one-coefficient filter that differs from the mic
\* sample: the coefficient is its last update, every earlier one being zero,
\* and the reference value it is multiplied with is not zero
Modified(sample) ==
    /\ Len(sample.filter) = 1
    /\ sample.window[1].val # 0
    /\ LET terms == sample.filter[1]
       IN /\ terms # <<>>
          /\ NonZero(terms[Len(terms)])
          /\ \A k \in 1..(Len(terms) - 1) : ~NonZero(terms[k])

\* C32: while AEC is disabled, the mic block a tick hands on to the
\* recogniser has not been modified by the AEC processor
C32_DisabledTickLeavesMicUnmodified ==
    (aec_ret.op = "tick" /\ ~aec_ret.enabled /\ aec_ret.processed)
        => \A i \in 1..Len(aec_ret.output) : ~Modified(aec_ret.output[i])

(* ------------------------ after stop has returned ---------------------- *)
\* the row is the row of one of the segments
RowOf(row, segs) ==
    \E i \in 1..Len(segs) :
        /\ segs[i].start_time = row.start_time
        /\ segs[i].end_time = row.end_time
        /\ segs[i].text = row.text

\* the final events of the stops that found a session to end
FinalEvents == {i \in 1..Len(events) : events[i].is_final /\ events[i].was_running}

\* C33: once stop has returned for a session, every segment persisted for the
\* session is in the result stop returned, and no non-final event of the
\* session follows the final event; stated for the behaviours with a single
\* start, in which every stop that found a session ends that session
C33_NothingAfterStopReturned ==
    nstarts = 1 =>
        \A i \in FinalEvents :
            /\ \A k \in 1..Len(db[1]) : RowOf(db[1][k], events[i].result)
            /\ \A j \in (i + 1)..Len(events) : events[j].is_final

(* --------------------- the state of a new session ---------------------- *)
\* a step after the latest start has returned that changes the accumulated
\* list or an offset
ChangesSessionState ==
    /\ nstarts' = nstarts
    /\ nstarts >= 1
    /\ pc[nstarts] \notin StartPcs \cup {"unborn"}
    /\ \/ segments' # segments
       \/ mic_time_offset' # mic_time_offset
       \/ system_time_offset' # system_time_offset

\* C34: after a successful start the accumulated list and the two offsets
\* are changed only by steps of the tick loop that start spawned, never by a
\* loop of an earlier session
C34_OnlyNewSessionChangesState ==
    [][ChangesSessionState => pc'[nstarts] # pc[nstarts]]_vars

(* ------------------------ the first tick's drain ----------------------- *)
\* the loops of the sessions started after the latest recording was started
LoopsOfRecording == {l \in Loops : l > recording_start.nstarts}

\* loop l takes the mic buffer, or the system-audio buffer, in this step
TakesMic(l) == pc[l] = "take_mic" /\ pc'[l] # "take_mic"
TakesSystem(l) == pc[l] = "take_system" /\ pc'[l] # "take_system"

\* C35: a live session started after its recording drains only samples
\* captured after that recording started, from the mic buffer and from the
\* system-audio buffer
C35_DrainsOnlySamplesOfItsRecording ==
    [][\A l \in LoopsOfRecording :
          /\ TakesMic(l) =>
                \A i \in 1..Len(audio_buffer) : audio_buffer[i] > recording_start.mic
          /\ TakesSystem(l) =>
                \A i \in 1..Len(system_audio_buffer) :
                    system_audio_buffer[i] > recording_start.sys]_vars

(* --------------------- the is_transcribing flag ------------------------ *)
\* the file-transcription commands admitted and not yet returned
Admitted == {c \in BatchCommands : batch_pc[c] = "admitted"}

\* C36: is_transcribing admits at most one file-transcription command at a
\* time and is false whenever no admitted command is at work, whatever the
\* exit path of the command that returned last
C36_FlagFalseWhenNothingTranscribes ==
    /\ Cardinality(Admitted) <= 1
    /\ Admitted = {} => ~is_transcribing

(* ------------------- the status of an uploaded audio ------------------- *)
\* transcribe_uploaded_audio returns in this step
UploadReturns ==
    /\ batch_pc["transcribe_uploaded_audio"] = "admitted"
    /\ batch_pc'["transcribe_uploaded_audio"] = "idle"

\* C39: when transcribe_uploaded_audio has set the status of the upload to
\* "processing" and returns, the status is "completed" if it returns Ok and
\* "failed" if it returns Err.  A call that finds a status other than
\* "processing" and fails to set it leaves that status and returns Err.
C39_StatusFollowsTheResult ==
    [][(UploadReturns /\ upload_status # "processing") =>
          \/ upload_status' = upload_status /\ ~returned'.ok
          \/ upload_status' = IF returned'.ok THEN "completed" ELSE "failed"]_vars

(* ------------------------- deleting a model ---------------------------- *)
\* C37 (its first part): delete_model never waits for, nor panics on, a
\* mutex that its own thread holds
C37_DeleteModelNeverLocksTwice ==
    \A t \in ModelThreads : model_call[t].pc \notin {"blocked", "panicked"}

(* --------------------- the end of a recording thread ------------------- *)
\* C38: whenever is_recording is true, a recording thread of the state is
\* about to run, is setting up or is streaming
C38_RecordingFlagHasThread ==
    is_recording =>
        \E r \in Recs : rec_pc[r] \in {"spawned", "clear_buffer", "streaming"}

====
